---- MODULE Spec2Model ----
(***************************************************************************)
(* Research Orchestration Engine: the Cost/Value Engine (cost_engine.py)   *)
(* and the Resolution Orchestrator (pipeline.py) as state machines.        *)
(*                                                                         *)
(* SpecCost drives one CostEngine through its public operations.           *)
(* SpecPipe drives run_full_scan, with the orchestrator and the engine it  *)
(* creates, against the server's start, stop and mode handlers and         *)
(* restarts of the process.                                                *)
(***************************************************************************)
EXTENDS Integers, Sequences, FiniteSets, TLC

VARIABLES
    cost,          \* CostEngine: config, sources, counters, stop flag
    lastCall,      \* the last operation called and what it returned
    roiExhausted,  \* history: sources next_source marked exhausted
    calls,         \* report_result calls made so far in SpecCost
    app,           \* app_state: the server's shared in-memory state
    task,          \* the scan tasks: run_full_scan frames and their orchestrators
    disk,          \* the files under BASE_DIR that the scan reads and writes
    config,        \* config/cities.py: the regions and the categories
    graph,         \* GraphScorer: the tables of scout_graph.db
    gcall,         \* the last GraphScorer operation, its arguments and outcome
    handed,        \* history: ids of the tasks get_next_task has returned
    now            \* time.time() as the task queue reads it

costVars == <<cost, lastCall, roiExhausted, calls>>

pipeVars == <<app, task, disk, config>>

graphVars == <<graph, gcall, handed, now>>

vars == <<cost, lastCall, roiExhausted, calls, app, task, disk, config,
          graph, gcall, handed, now>>

----------------------------------------------------------------------------
(* Bounds of the model *)

\* report_result calls allowed in one behaviour of SpecCost
MaxActions == 4

\* Source names that can be registered on the engine of SpecCost
SrcNames == {"direct", "semi_direct"}

\* Static priors given to add_source in SpecCost
Priorities == {10, 90}

\* (found, cost, value) triples reported in SpecCost: a miss, a search hit
\* with the default value, and a verified-candidates hit as the orchestrator
\* reports it (cost 0, value 20 per candidate)
ReportInputs ==
    { [found |-> 0, cost |-> 1, value |-> 0],
      [found |-> 1, cost |-> 1, value |-> 0],
      [found |-> 2, cost |-> 0, value |-> 40] }

\* Engine configurations of SpecCost
LongConfig ==
    [target_count |-> 100, patience_initial |-> 7, patience_recharge |-> 1,
     patience_drain |-> 1, global_budget |-> 100]

Configs ==
    { [target_count |-> 3, patience_initial |-> 2, patience_recharge |-> 3,
       patience_drain |-> 1, global_budget |-> 100],
      LongConfig,
      [target_count |-> 2, patience_initial |-> 3, patience_recharge |-> 0,
       patience_drain |-> 2, global_budget |-> 3] }

\* Engines SpecCost may start from besides a new one: LongConfig engines
\* that registered both sources with priorities p1, p2 and then reported
\* k1 and k2 misses on them (reachable states, as CostEngine.load restores)
WarmStarts ==
    { [p1 |-> 10, p2 |-> 10, k1 |-> 5, k2 |-> 2],
      [p1 |-> 10, p2 |-> 10, k1 |-> 5, k2 |-> 5],
      [p1 |-> 90, p2 |-> 10, k1 |-> 0, k2 |-> 5] }

----------------------------------------------------------------------------
(* Arithmetic helpers *)

Min(a, b) == IF a <= b THEN a ELSE b

Max(a, b) == IF a >= b THEN a ELSE b

\* round(10^4 * e^(-0.05 * d)) for d = 0..40
ExpTable ==
    << 10000, 9512, 9048, 8607, 8187, 7788, 7408, 7047, 6703, 6376, 6065,
       5769, 5488, 5220, 4966, 4724, 4493, 4274, 4066, 3867, 3679, 3499,
       3329, 3166, 3012, 2865, 2725, 2592, 2466, 2346, 2231, 2122, 2019,
       1920, 1827, 1738, 1653, 1572, 1496, 1423, 1353 >>

ExpScale == 10000

\* math.exp(-0.05 * drought), scaled by ExpScale
drought_decay(d) == ExpTable[Min(d, Len(ExpTable) - 1) + 1]

\* min_roi = 0.05 as the fraction MinRoiNum / MinRoiDen
MinRoiNum == 1

MinRoiDen == 20

\* best.attempts > 5 / src.attempts > 5
RoiGraceAttempts == 5

----------------------------------------------------------------------------
(* SourceStats *)

SourceStats(priority, patience) ==
    [ priority |-> priority, attempts |-> 0, hits |-> 0, misses |-> 0,
      total_cost |-> 0, total_value |-> 0, patience |-> patience,
      exhausted |-> FALSE, last_hit_at |-> 0 ]

drought(s) == s.attempts - s.last_hit_at

\* roi = total_value / max(0.01, total_cost), as the fraction <<num, den>>
roi(s) ==
    IF s.total_cost = 0 THEN <<100 * s.total_value, 1>>
    ELSE <<s.total_value, s.total_cost>>

\* effective_priority as the fraction <<num, den>>, den > 0
effective_priority(s) ==
    IF s.exhausted THEN <<0, 1>>
    ELSE IF s.attempts = 0 THEN <<s.priority, 1>>
    ELSE LET r == roi(s)
             a == s.attempts
             \* min(20, roi * 5) over the denominator r[2]
             bonus == Min(20 * r[2], 5 * r[1])
             \* min(30, drought * 1.5) over the denominator 2
             penalty2 == Min(60, 3 * drought(s))
             num == 3 * s.priority * a * r[2] + 500 * s.hits * r[2]
                    - 5 * penalty2 * a * r[2] + 10 * a * bonus
         IN  <<Max(0, num), 10 * a * r[2]>>

\* p_success of predict_roi as the fraction <<num, den>>
p_success(s) ==
    IF s.attempts = 0 THEN <<s.priority, 100>>
    ELSE IF s.attempts < 10
         THEN <<(10 - s.attempts) * s.priority + 100 * s.hits, 1000>>
         ELSE <<s.hits, s.attempts>>

\* predict_roi(name, estimated_cost = 1.0) < min_roi
roi_below_min(s) ==
    IF s.exhausted THEN TRUE
    ELSE LET p == p_success(s)
         IN  p[1] * drought_decay(drought(s)) * MinRoiDen
                 < MinRoiNum * p[2] * ExpScale

----------------------------------------------------------------------------
(* CostEngine: the operations as functions of the engine value *)

NewEngine(cfg) ==
    [ cfg |-> cfg, sources |-> <<>>, order |-> <<>>, total_found |-> 0,
      total_actions |-> 0, stopped |-> FALSE, stop_reason |-> "" ]

Registered(e) == DOMAIN e.sources

Active(e) == { n \in Registered(e) : ~e.sources[n].exhausted }

add_source(e, name, priority) ==
    IF name \in Registered(e) THEN e
    ELSE [e EXCEPT
            !.sources = [n \in Registered(e) \cup {name} |->
                           IF n = name
                           THEN SourceStats(priority, e.cfg.patience_initial)
                           ELSE e.sources[n]],
            !.order = Append(e.order, name)]

stop_engine(e, reason) == [e EXCEPT !.stopped = TRUE, !.stop_reason = reason]

force_stop(e) == stop_engine(e, "manual")

\* Variant of should_stop: the budget is looked at before the target
should_stop_budget_first(e) ==
    IF e.stopped THEN [eng |-> e, ret |-> TRUE]
    ELSE IF e.total_actions >= e.cfg.global_budget
         THEN [eng |-> stop_engine(e, "budget_exhausted"), ret |-> TRUE]
    ELSE IF e.total_found >= e.cfg.target_count
         THEN [eng |-> stop_engine(e, "target_reached"), ret |-> TRUE]
    ELSE IF Active(e) = {} /\ Registered(e) # {}
         THEN [eng |-> stop_engine(e, "all_sources_exhausted"), ret |-> TRUE]
    ELSE [eng |-> e, ret |-> FALSE]

\* Variant of should_stop: the conditions are evaluated afresh on each call
should_stop_no_latch(e) ==
    IF e.total_found >= e.cfg.target_count
    THEN [eng |-> stop_engine(e, "target_reached"), ret |-> TRUE]
    ELSE IF e.total_actions >= e.cfg.global_budget
         THEN [eng |-> stop_engine(e, "budget_exhausted"), ret |-> TRUE]
    ELSE IF Active(e) = {} /\ Registered(e) # {}
         THEN [eng |-> stop_engine(e, "all_sources_exhausted"), ret |-> TRUE]
    ELSE [eng |-> e, ret |-> FALSE]

\* should_stop: the engine afterwards and the value returned
should_stop(e) ==
    IF e.stopped THEN [eng |-> e, ret |-> TRUE]
    ELSE IF e.total_found >= e.cfg.target_count
         THEN [eng |-> stop_engine(e, "target_reached"), ret |-> TRUE]
    ELSE IF e.total_actions >= e.cfg.global_budget
         THEN [eng |-> stop_engine(e, "budget_exhausted"), ret |-> TRUE]
    ELSE IF Active(e) = {} /\ Registered(e) # {}
         THEN [eng |-> stop_engine(e, "all_sources_exhausted"), ret |-> TRUE]
    ELSE [eng |-> e, ret |-> FALSE]

\* Variant of hit_update: the recharge is not capped
hit_update_nocap(s1, cfg, found, val) ==
    [s1 EXCEPT !.hits = @ + found,
               !.total_value = @ + val,
               !.patience = @ + cfg.patience_recharge,
               !.last_hit_at = s1.attempts]

\* Variant of hit_update: a hit revives an exhausted source
hit_update_revive(s1, cfg, found, val) ==
    [s1 EXCEPT !.hits = @ + found,
               !.total_value = @ + val,
               !.patience = Min(cfg.patience_initial * 2,
                                @ + cfg.patience_recharge),
               !.exhausted = FALSE,
               !.last_hit_at = s1.attempts]

\* report_result, the branch found > 0: recharge patience, update stats
hit_update(s1, cfg, found, val) ==
    [s1 EXCEPT !.hits = @ + found,
               !.total_value = @ + val,
               !.patience = Min(cfg.patience_initial * 2,
                                @ + cfg.patience_recharge),
               !.last_hit_at = s1.attempts]

\* Variant of miss_update: exhausted only once patience is below 0
miss_update_late(s1, cfg) ==
    LET p == s1.patience - cfg.patience_drain
    IN  IF p < 0
        THEN [s1 EXCEPT !.misses = @ + 1, !.patience = 0, !.exhausted = TRUE]
        ELSE [s1 EXCEPT !.misses = @ + 1, !.patience = p]

\* report_result, the branch found <= 0: drain patience, maybe exhaust
miss_update(s1, cfg) ==
    LET p == s1.patience - cfg.patience_drain
    IN  IF p <= 0
        THEN [s1 EXCEPT !.misses = @ + 1, !.patience = 0, !.exhausted = TRUE]
        ELSE [s1 EXCEPT !.misses = @ + 1, !.patience = p]

report_result(e, name, found, c, value) ==
    IF name \notin Registered(e) THEN e
    ELSE
      LET s == e.sources[name]
          val == IF found > 0 /\ value = 0 THEN found * 10 ELSE value
          s1 == [s EXCEPT !.attempts = @ + 1, !.total_cost = @ + c]
          s2 == IF found > 0 THEN hit_update(s1, e.cfg, found, val)
                ELSE miss_update(s1, e.cfg)
      IN  [e EXCEPT !.sources[name] = s2,
                    !.total_actions = @ + 1,
                    !.total_found = IF found > 0 THEN @ + found ELSE @]

\* Variant of roi_floor_rejects: no grace period of attempts
roi_floor_rejects_no_grace(s) == roi_below_min(s)

\* roi < self.min_roi and src.attempts > 5
roi_floor_rejects(s) == roi_below_min(s) /\ s.attempts > RoiGraceAttempts

\* a ranks at least as high as b
ep_geq(a, b) ==
    LET x == effective_priority(a)
        y == effective_priority(b)
    IN  x[1] * y[2] >= y[1] * x[2]

\* max(active, key = effective_priority): the first maximum in dict order
best_source(e) ==
    LET idx == { i \in 1..Len(e.order) : e.order[i] \in Active(e) }
        top == CHOOSE i \in idx :
                 /\ \A j \in idx : ep_geq(e.sources[e.order[i]], e.sources[e.order[j]])
                 /\ \A j \in idx : j < i =>
                        ~ep_geq(e.sources[e.order[j]], e.sources[e.order[i]])
    IN  e.order[top]

\* Variant of explore_choices: the random choice is among all active sources
explore_choices_any(e) == Active(e)

\* others = [s for s in active if s.name != best.name]
explore_choices(e) == Active(e) \ {best_source(e)}

RECURSIVE next_source(_)
\* next_source: every (engine afterwards, name returned, branch that
\* returned) the random draws allow
next_source(e) ==
    IF Active(e) = {} THEN { [eng |-> e, ret |-> "none", branch |-> "none"] }
    ELSE
      LET best == best_source(e)
          explore == IF Cardinality(Active(e)) > 1
                     THEN { [eng |-> e, ret |-> n, branch |-> "explore"] :
                              n \in explore_choices(e) }
                     ELSE {}
          exploit == IF roi_floor_rejects(e.sources[best])
                     THEN next_source([e EXCEPT !.sources[best].exhausted = TRUE])
                     ELSE { [eng |-> e, ret |-> best, branch |-> "exploit"] }
      IN  explore \cup exploit

\* Variant of evaluate_action: the ROI floor applies from the first attempt
evaluate_action_no_grace(e, name) ==
    IF name \notin Registered(e)
    THEN [eng |-> e, execute |-> FALSE, reason |-> "unknown_source"]
    ELSE IF e.sources[name].exhausted
    THEN [eng |-> e, execute |-> FALSE, reason |-> "source_exhausted"]
    ELSE LET st == should_stop(e)
         IN  IF st.ret
             THEN [eng |-> st.eng, execute |-> FALSE, reason |-> st.eng.stop_reason]
             ELSE IF roi_below_min(e.sources[name])
             THEN [eng |-> st.eng, execute |-> FALSE, reason |-> "roi_too_low"]
             ELSE [eng |-> st.eng, execute |-> TRUE, reason |-> "go"]

\* evaluate_action(name): the engine afterwards, execute and the reason
evaluate_action(e, name) ==
    IF name \notin Registered(e)
    THEN [eng |-> e, execute |-> FALSE, reason |-> "unknown_source"]
    ELSE IF e.sources[name].exhausted
    THEN [eng |-> e, execute |-> FALSE, reason |-> "source_exhausted"]
    ELSE LET st == should_stop(e)
         IN  IF st.ret
             THEN [eng |-> st.eng, execute |-> FALSE, reason |-> st.eng.stop_reason]
             ELSE IF roi_floor_rejects(e.sources[name])
             THEN [eng |-> st.eng, execute |-> FALSE, reason |-> "roi_too_low"]
             ELSE [eng |-> st.eng, execute |-> TRUE, reason |-> "go"]

----------------------------------------------------------------------------
(* Resolution Orchestrator: configuration and resolution records *)

PENDING == "pending"

IN_PROGRESS == "in_progress"

RESOLVED == "resolved"

PARTIAL == "partial"

FAILED == "failed"

MAX_WAVES == 3

\* config/settings.py, in thousandths
MIN_TOTAL_SCORE == 500

\* A channel _verify_youtube has checked, built and scored (a channel that
\* gets this far has yt_subscriber_match true), before its verified flag is
\* set; total_score is in thousandths
Channel(url, score) ==
    [channel_url |-> url, total_score |-> score, verified |-> FALSE]

\* best_candidate = None
NoCandidate == Channel("", 0)

\* The channels one call of _verify_youtube can score, in the order of the
\* candidates: none, or one that passes
OneChannel == { <<>>, << Channel("a", 900) >> }

\* The same with up to two channels, below, at and above the minimum, the
\* better one first or last, or both equal
ChannelLists ==
    { <<>>, << Channel("a", 400) >>, << Channel("a", 500) >>,
      << Channel("a", 700), Channel("b", 900) >>,
      << Channel("a", 900), Channel("b", 700) >>,
      << Channel("a", 700), Channel("b", 700) >>,
      << Channel("a", 400), Channel("b", 900) >>,
      << Channel("a", 400), Channel("b", 300) >> }

\* config/cities.py cut down to two regions of one locality and two
\* categories: the regions in the iteration order of the dict, the
\* categories in list order
SmallConfig ==
    [US_STATES_CITIES |->
         << [state |-> "Alabama", cities |-> <<"Birmingham">>],
            [state |-> "Alaska",  cities |-> <<"Anchorage">>] >>,
     CATEGORIES |-> <<"cinema", "gaming">>,
     CHANNELS |-> OneChannel]

\* The same with a single region, where a resumed run can skip every region
OneRegionConfig ==
    [US_STATES_CITIES |-> << [state |-> "Alabama", cities |-> <<"Birmingham">>] >>,
     CATEGORIES |-> <<"cinema", "gaming">>,
     CHANNELS |-> OneChannel]

\* One region of two localities, where a stop can fall between localities
TwoCityConfig ==
    [US_STATES_CITIES |->
         << [state |-> "Alabama", cities |-> <<"Birmingham", "Montgomery">>] >>,
     CATEGORIES |-> <<"cinema">>,
     CHANNELS |-> OneChannel]

\* One region of one locality and one category, for two scan tasks at once
OneCategoryConfig ==
    [US_STATES_CITIES |-> << [state |-> "Alabama", cities |-> <<"Birmingham">>] >>,
     CATEGORIES |-> <<"cinema">>,
     CHANNELS |-> OneChannel]

\* The same, where verification can meet two channels of any scores
ScoredConfig ==
    [US_STATES_CITIES |-> << [state |-> "Alabama", cities |-> <<"Birmingham">>] >>,
     CATEGORIES |-> <<"cinema">>,
     CHANNELS |-> ChannelLists]

US_STATES_CITIES == config.US_STATES_CITIES

CATEGORIES == config.CATEGORIES

\* What _search can return, as (unique results, YouTube links among them)
SearchOutcomes ==
    { [unique |-> 0, yt_in_results |-> 0], [unique |-> 1, yt_in_results |-> 1] }

\* The channel lists _verify_youtube can score in this run
CHANNELS == config.CHANNELS

\* Slots for scan tasks created by h_start_scan
TaskIds == {1, 2}

SeqRange(q) == { q[i] : i \in 1..Len(q) }

StateNames == { US_STATES_CITIES[i].state : i \in 1..Len(US_STATES_CITIES) }

CategoryResolution ==
    [status |-> PENDING, waves_attempted |-> 0, candidates |-> <<>>,
     best_candidate |-> NoCandidate, failure_reason |-> ""]

CityResolution ==
    [status |-> PENDING,
     categories |-> [k \in SeqRange(CATEGORIES) |-> CategoryResolution]]

\* The tree process_state builds for a region before its first locality
StateResolution(state_name, cities) ==
    [state |-> state_name, status |-> IN_PROGRESS,
     cities |-> [c \in SeqRange(cities) |-> CityResolution]]

\* No region in hand
NoResolution == [state |-> "", status |-> "", cities |-> <<>>]

\* A locality that counts as resolved as soon as one category is
city_is_resolved_any(cr) ==
    \E k \in DOMAIN cr.categories : cr.categories[k].status = RESOLVED

\* CityResolution.is_resolved
city_is_resolved(cr) ==
    \A k \in DOMAIN cr.categories : cr.categories[k].status = RESOLVED

\* CityResolution.is_fully_attempted
is_fully_attempted(cr) ==
    \A k \in DOMAIN cr.categories : cr.categories[k].status \in {RESOLVED, FAILED}

\* StateResolution.is_resolved
state_is_resolved(sr) ==
    \A c \in DOMAIN sr.cities : is_fully_attempted(sr.cities[c])

\* PipelineOrchestrator.__init__: the engine the orchestrator owns
PipelineCost ==
    add_source(add_source(add_source(
        NewEngine([target_count |-> 450, patience_initial |-> 30,
                   patience_recharge |-> 20, patience_drain |-> 1,
                   global_budget |-> 5000]),
        "direct", 90), "semi_direct", 60), "indirect", 40)

\* What one category-wave did so far (history kept beside the frame)
NoTrace == [reports |-> <<>>, did |-> {}]

\* A slot with no scan task in it
NoTask ==
    [pc |-> "idle", idx |-> 0,
     resume_state |-> [loaded |-> FALSE, states |-> {}],
     running |-> FALSE, states |-> <<>>, cost |-> PipelineCost,
     sr |-> NoResolution, city_idx |-> 0, wave |-> 0, unresolved |-> <<>>,
     cat_key |-> "", queries |-> <<>>, cp |-> "",
     trace |-> NoTrace, invoked |-> {}]

\* AppState.__init__
AppState ==
    [is_running |-> FALSE, scan_running |-> FALSE, pipeline |-> 0,
     results |-> {}, resolution_status |-> <<>>,
     auto_mode |-> FALSE, checkpoint_name |-> "", checkpoint_waiting |-> FALSE,
     checkpoint_response |-> "", checkpoint_modifications |-> <<>>,
     checkpoint_event |-> "none"]

NoFile == [exists |-> FALSE, states |-> {}]

\* Nothing written yet under BASE_DIR: results.json, RESULTATS/_resume.json,
\* RESULTATS/cost_engine_state.json and RESULTATS/_checkpoint.json
EmptyDisk ==
    [results |-> NoFile, resume |-> NoFile,
     cost_state |-> [exists |-> FALSE, total_actions |-> 0],
     checkpoint |-> [exists |-> FALSE, name |-> ""]]

\* Positions of run_full_scan where the coroutine is suspended in an await
AwaitPcs ==
    {"created", "generate_queries", "checkpoint", "search", "triage",
     "fetch", "assemble", "verify", "analyze_failure"}

\* Positions of a slot whose task is not there or has ended
EndedPcs == {"idle", "done", "crashed"}

\* The event loop runs one coroutine at a time: a request handler runs only
\* while every scan task is suspended or ended
AllSuspended == \A t \in TaskIds : task[t].pc \in AwaitPcs \cup EndedPcs

----------------------------------------------------------------------------
(* Resolution Orchestrator: what the code does between two awaits.          *)
(* tr is a scan task's frame; s = [tr, app, disk] is the frame with the     *)
(* shared state and the files it touches.                                   *)

Cities(tr) == US_STATES_CITIES[tr.idx].cities

CityName(tr) == Cities(tr)[tr.city_idx]

cat_res(tr) == tr.sr.cities[CityName(tr)].categories[tr.cat_key]

set_cat(tr, f) ==
    [tr EXCEPT !.sr.cities[CityName(tr)].categories[tr.cat_key] = f]

did(tr, what) == [tr EXCEPT !.trace.did = @ \cup what]

\* self.cost.report_result(...) as the orchestrator calls it
reported(tr, src, found, c, value) ==
    [tr EXCEPT !.cost = report_result(@, src, found, c, value),
               !.trace.reports = Append(@, [source |-> src, found |-> found])]

\* return from _process_category_wave into the loop over unresolved
return_from_wave(tr) == [tr EXCEPT !.unresolved = Tail(@), !.pc = "cat_top"]

fail_category(tr, reason) ==
    return_from_wave(set_cat(tr, [cat_res(tr) EXCEPT !.status = FAILED,
                                                     !.failure_reason = reason]))

\* _escalate: fail at the last wave, else await analyze_failure
escalate(tr) ==
    IF tr.wave >= MAX_WAVES
    THEN fail_category(did(tr, {"escalate"}), "Exhausted waves")
    ELSE [did(tr, {"escalate"}) EXCEPT !.pc = "analyze_failure"]

source_tier(wave) ==
    IF wave = 1 THEN "direct" ELSE IF wave = 2 THEN "semi_direct" ELSE "indirect"

\* The code that follows the return of checkpoint(name) with response
after_checkpoint(s, name, response) ==
    LET tr == s.tr
        new_qs == s.app.checkpoint_modifications
        tr1 == IF name = "queries_ready"
               THEN IF response = "skip"
                    THEN fail_category(tr, "Skipped by user")
                    ELSE IF response = "modify" /\ new_qs # <<>>
                    THEN [tr EXCEPT !.pc = "search",
                             !.queries = SelectSeq(new_qs, LAMBDA q : q # "")]
                    ELSE [tr EXCEPT !.pc = "search"]
               ELSE IF name = "search_done"
               THEN IF response = "skip"
                    THEN fail_category(tr, "Skipped after search")
                    ELSE [tr EXCEPT !.pc = "triage"]
               ELSE IF response = "skip"
                    THEN fail_category(tr, "Skipped before verification")
                    ELSE [tr EXCEPT !.pc = "verify"]
    IN  [s EXCEPT !.tr = tr1]

\* checkpoint(name) without the reset of the response, the modifications and
\* the event: whatever was posted before the call is still there
checkpoint_keeps_decision(s, name) ==
    IF s.app.auto_mode
    THEN after_checkpoint(s, name, "continue")
    ELSE LET opened ==
                 [tr |-> [s.tr EXCEPT !.cp = name],
                  app |-> [s.app EXCEPT !.checkpoint_name = name,
                                        !.checkpoint_waiting = TRUE,
                                        !.checkpoint_event =
                                            IF @ = "none" THEN "clear" ELSE @],
                  disk |-> [s.disk EXCEPT !.checkpoint =
                                        [exists |-> TRUE, name |-> name]]]
         IN  IF ~s.app.scan_running
             THEN after_checkpoint(opened, name, "skip")
             ELSE [opened EXCEPT !.tr.pc = "checkpoint"]

\* checkpoint(name) up to its first await: pass in auto mode, else persist and
\* open the checkpoint; the loop's first test runs before any sleep
checkpoint(s, name) ==
    IF s.app.auto_mode
    THEN after_checkpoint(s, name, "continue")
    ELSE LET opened ==
                 [tr |-> [s.tr EXCEPT !.cp = name],
                  app |-> [s.app EXCEPT !.checkpoint_name = name,
                                        !.checkpoint_waiting = TRUE,
                                        !.checkpoint_response = "",
                                        !.checkpoint_modifications = <<>>,
                                        !.checkpoint_event = "clear"],
                  disk |-> [s.disk EXCEPT !.checkpoint =
                                        [exists |-> TRUE, name |-> name]]]
         IN  IF ~s.app.scan_running
             THEN after_checkpoint(opened, name, "skip")
             ELSE [opened EXCEPT !.tr.pc = "checkpoint"]

\* checkpoint(name) when the sleep returns: the decision if the event is set,
\* "skip" if the scan was cancelled
checkpoint_wakes(s) ==
    IF s.app.checkpoint_event = "set"
    THEN LET response == IF s.app.checkpoint_response = "" THEN "continue"
                         ELSE s.app.checkpoint_response
         IN  after_checkpoint(
                 [s EXCEPT !.app.checkpoint_waiting = FALSE,
                           !.app.checkpoint_name = "",
                           !.disk.checkpoint = [exists |-> FALSE, name |-> ""]],
                 s.tr.cp, response)
    ELSE after_checkpoint(s, s.tr.cp, "skip")

RECURSIVE search_evaluates(_, _)
\* _search in the browser: evaluate_action on the source of every query
search_evaluates(e, queries) ==
    IF queries = <<>> THEN e
    ELSE LET e1 == IF "direct" \in Registered(e) THEN e
                   ELSE add_source(e, "direct", 50)
         IN  search_evaluates(evaluate_action(e1, "direct").eng, Tail(queries))

\* No unique result: one miss on "direct", then escalate
search_empty_silent(tr) == escalate(tr)

search_empty(tr) ==
    escalate(reported(tr, "direct", 0, Len(tr.queries), 0))

\* _verify_youtube on the channels it scores: the verified flag of each, and
\* the list of those verified
verify_youtube(channels) ==
    LET ch == [i \in 1..Len(channels) |->
                  [channels[i] EXCEPT !.verified =
                      channels[i].total_score >= MIN_TOTAL_SCORE]]
    IN  SelectSeq(ch, LAMBDA c : c.verified)

\* The first of the verified candidates, whatever its score
first_of(verified) == verified[1]

\* max(verified, key=lambda c: c.total_score): the first of those no other
\* exceeds
best_of(verified) ==
    verified[CHOOSE i \in 1..Len(verified) :
                /\ \A j \in 1..Len(verified) :
                       verified[j].total_score <= verified[i].total_score
                /\ \A j \in 1..(i - 1) :
                       verified[j].total_score < verified[i].total_score]

\* Verification done, with the list of verified candidates
verified_outcome(tr, verified) ==
    IF verified # <<>>
    THEN return_from_wave(
             reported(set_cat(tr, [cat_res(tr) EXCEPT
                                      !.status = RESOLVED,
                                      !.best_candidate = best_of(verified),
                                      !.candidates = verified]),
                      source_tier(tr.wave), Len(verified), 0,
                      20 * Len(verified)))
    ELSE IF tr.wave >= MAX_WAVES
    THEN fail_category(tr, "No verified channel")
    ELSE return_from_wave(tr)

\* _load_resume
load_resume(d) ==
    IF d.resume.exists THEN [loaded |-> TRUE, states |-> d.resume.states]
    ELSE [loaded |-> FALSE, states |-> {}]

\* run_full_scan's test for a region to skip
should_skip_never(resume_state, state_name) == FALSE

should_skip(resume_state, state_name) ==
    /\ resume_state.loaded
    /\ resume_state.states # {}
    /\ state_name \in resume_state.states

\* _save: the results snapshot and the resume marker
save_files(a, d) ==
    [d EXCEPT !.results = [exists |-> TRUE, states |-> DOMAIN a.resolution_status],
              !.resume = [exists |-> TRUE, states |-> DOMAIN a.resolution_status]]

\* CostEngine.save(path): without a path it reads BASE_DIR, a name the
\* module never binds, and raises NameError before writing
cost_save(e, path) ==
    IF path = ""
    THEN [raised |-> TRUE, file |-> [exists |-> FALSE, total_actions |-> 0]]
    ELSE [raised |-> FALSE,
          file |-> [exists |-> TRUE, total_actions |-> e.total_actions]]

----------------------------------------------------------------------------
(* Entity-Graph Scorer: the tables of the SQLite store and the operations   *)
(* of GraphScorer. Every operation runs in one `with self._conn()` block    *)
(* and yields [db, ret, raised]: the store afterwards, the value returned   *)
(* and the exception raised ("" when none).                                 *)

\* Entities, targets and tasks the graph specifications may store
MaxEntities == 2

MaxTargets == 2

MaxTasks == 3

\* Arguments of add_entity: (name, city) pairs that differ in the name only
\* or in the city only, and the kind
EntityKeys == { <<"a", "x">>, <<"a", "y">>, <<"b", "x">> }

EntityKinds == {"person", "organization"}

\* Arguments of add_target: entity_id 0 is the default, "no entity"
TargetUrls == {"u1", "u2"}

Platforms == {"youtube", "website"}

EntityIdArgs == 0..(MaxEntities + 1)

\* Arguments of configure_criteria: lists of items, one with a repeated
\* name and one with an item that has no "name" key
CriteriaLists ==
    { <<>>,
      <<[name |-> "a", points |-> 30]>>,
      <<[name |-> "a", points |-> 10], [name |-> "b", points |-> 20]>>,
      <<[name |-> "b", points |-> 20], [name |-> "a", points |-> 30]>>,
      <<[name |-> "b", points |-> 20], [name |-> "b", points |-> 30]>>,
      <<[name |-> "b", points |-> 10], [points |-> 30]>> }

Thresholds == {20, 60}

CriterionNames == {"a", "b"}

\* Arguments of add_task: (type, entity_id, target_id) and a priority
TaskKeys ==
    { <<"find_target", 1, 0>>, <<"find_target", 2, 0>>,
      <<"analyze_target", 1, 0>>, <<"analyze_target", 1, 1>> }

TaskPriorities == {1, 5}

\* The smallest element of a non-empty set of integers
MinOf(S) == CHOOSE i \in S : \A j \in S : i <= j

RECURSIVE str(_)
\* str(n) for n >= 0: the decimal digits
str(n) == IF n < 10 THEN <<n>> ELSE Append(str(n \div 10), n % 10)

RECURSIVE int(_)
\* int(text) of a string of decimal digits
int(text) ==
    IF Len(text) = 1 THEN text[1]
    ELSE 10 * int(SubSeq(text, 1, Len(text) - 1)) + text[Len(text)]

\* No GraphScorer operation called yet
NoGCall == [op |-> "none", ret |-> "none", raised |-> ""]

\* _init_db on a new file: every table empty
EmptyDb ==
    [entities |-> <<>>, targets |-> <<>>, criteria |-> {}, config |-> {},
     scores |-> {}, score_totals |-> {}, tasks |-> <<>>]

\* Variant of conn_exit: what the block wrote stays although it raised
conn_exit_keeps(before, txn) == txn

\* `with self._conn() as c`: commit when the block ends, roll back to the
\* store as it was when the block raises
conn_exit(before, txn) ==
    IF txn.raised # "" THEN [txn EXCEPT !.db = before] ELSE txn

\* REFERENCES ... with PRAGMA foreign_keys=ON: the parent row must exist
references(table, id) == id \in 1..Len(table)

\* INSERT OR REPLACE INTO config(key, value)
set_config(db, key, value) ==
    [db EXCEPT !.config = { r \in @ : r.key # key }
                              \cup {[key |-> key, value |-> value]}]

\* get_config(key, default)
get_config(db, key, default) ==
    IF \E r \in db.config : r.key = key
    THEN (CHOOSE r \in db.config : r.key = key).value
    ELSE default

\* get_threshold()
get_threshold(db) == int(get_config(db, "threshold", str(60)))

\* Variant of criteria_deleted: the rows of the previous call stay
criteria_deleted_none(db) == db

\* DELETE FROM criteria
criteria_deleted(db) == [db EXCEPT !.criteria = {}]

RECURSIVE insert_criteria(_, _, _)
\* The INSERT loop of configure_criteria from item i on: cr["name"] raises
\* KeyError, a name already in the table violates UNIQUE
insert_criteria(txn, criteria, i) ==
    IF i > Len(criteria) THEN txn
    ELSE LET cr == criteria[i]
         IN  IF "name" \notin DOMAIN cr
             THEN [txn EXCEPT !.raised = "KeyError"]
             ELSE IF \E r \in txn.db.criteria : r.name = cr.name
             THEN [txn EXCEPT !.raised = "IntegrityError"]
             ELSE insert_criteria(
                      [txn EXCEPT !.db.criteria = @ \cup
                          {[name |-> cr.name,
                            points |-> IF "points" \in DOMAIN cr
                                       THEN cr.points ELSE 0,
                            sort_order |-> i - 1]}],
                      criteria, i + 1)

\* configure_criteria(criteria, threshold)
configure_criteria(db, criteria, threshold) ==
    LET inserted == insert_criteria(
                        [db |-> criteria_deleted(db), ret |-> "none", raised |-> ""],
                        criteria, 1)
    IN  conn_exit(db,
            IF inserted.raised # "" THEN inserted
            ELSE [inserted EXCEPT
                    !.db = set_config(@, "threshold", str(threshold))])

RECURSIVE sorted_by_sort_order(_)
\* ORDER BY sort_order
sorted_by_sort_order(rows) ==
    IF rows = {} THEN <<>>
    ELSE LET first == CHOOSE r \in rows :
                         \A q \in rows : r.sort_order <= q.sort_order
         IN  <<first>> \o sorted_by_sort_order(rows \ {first})

\* get_criteria()
get_criteria(db) == sorted_by_sort_order(db.criteria)

\* Variant of entity_rows: the kind is part of the key too
entity_rows_with_kind(db, name, kind, city) ==
    { i \in 1..Len(db.entities) :
        /\ db.entities[i].name = name
        /\ db.entities[i].city = city
        /\ db.entities[i].kind = kind }

\* SELECT id FROM entities WHERE name=? AND city=?
entity_rows(db, name, kind, city) ==
    { i \in 1..Len(db.entities) :
        db.entities[i].name = name /\ db.entities[i].city = city }

\* add_entity(name, kind, city=..., status=...)
add_entity(db, name, kind, city, status) ==
    LET existing == entity_rows(db, name, kind, city)
    IN  conn_exit(db,
            IF existing # {}
            THEN [db |-> db, ret |-> MinOf(existing), raised |-> ""]
            ELSE [db |-> [db EXCEPT !.entities = Append(@,
                            [name |-> name, kind |-> kind, city |-> city,
                             status |-> status])],
                  ret |-> Len(db.entities) + 1, raised |-> ""])

\* add_target(url, entity_id, platform)
add_target(db, url, entity_id, platform) ==
    LET existing == { i \in 1..Len(db.targets) : db.targets[i].url = url }
        id == MinOf(existing)
    IN  conn_exit(db,
            IF existing # {}
            THEN IF entity_id # 0 /\ db.targets[id].entity_id = 0
                 THEN IF references(db.entities, entity_id)
                      THEN [db |-> [db EXCEPT !.targets[id].entity_id = entity_id],
                            ret |-> id, raised |-> ""]
                      ELSE [db |-> db, ret |-> 0, raised |-> "IntegrityError"]
                 ELSE [db |-> db, ret |-> id, raised |-> ""]
            ELSE IF references(db.entities, entity_id)
                 THEN [db |-> [db EXCEPT !.targets = Append(@,
                                 [entity_id |-> entity_id, platform |-> platform,
                                  url |-> url])],
                       ret |-> Len(db.targets) + 1, raised |-> ""]
                 ELSE [db |-> db, ret |-> 0, raised |-> "IntegrityError"])

\* The scores row of (target_id, criterion_name), as a set of 0 or 1 rows
score_rows(db, target_id, criterion_name) ==
    { r \in db.scores :
        r.target_id = target_id /\ r.criterion_name = criterion_name }

\* set_criterion(target_id, criterion_name, met)
set_criterion(db, target_id, criterion_name, met) ==
    LET cr == { r \in db.criteria : r.name = criterion_name }
        pts == IF cr # {} /\ met THEN (CHOOSE r \in cr : TRUE).points ELSE 0
    IN  conn_exit(db,
            IF references(db.targets, target_id)
            THEN [db |-> [db EXCEPT !.scores =
                            (@ \ score_rows(db, target_id, criterion_name)) \cup
                            {[target_id |-> target_id,
                              criterion_name |-> criterion_name,
                              met |-> met, points_awarded |-> pts]}],
                  ret |-> "none", raised |-> ""]
            ELSE [db |-> db, ret |-> "none", raised |-> "IntegrityError"])

\* One entry of compute_score's details: max, awarded and met of criterion cr
score_detail(db, target_id, cr) ==
    LET sc == score_rows(db, target_id, cr.name)
        row == CHOOSE r \in sc : TRUE
    IN  [max |-> cr.points,
         awarded |-> IF sc # {} THEN row.points_awarded ELSE 0,
         met |-> IF sc # {} THEN row.met ELSE FALSE]

RECURSIVE sum_of(_, _)
\* The sum of f[n] over the names n of a set
sum_of(f, names) ==
    IF names = {} THEN 0
    ELSE LET n == CHOOSE m \in names : TRUE
         IN  f[n] + sum_of(f, names \ {n})

\* Variant of upsert_total: the new total is added to the stored one
upsert_total_adds(db, row) ==
    LET old == { r \in db.score_totals : r.target_id = row.target_id }
        prev == IF old = {} THEN 0 ELSE (CHOOSE r \in old : TRUE).total
    IN  [db EXCEPT !.score_totals =
            (@ \ old) \cup {[row EXCEPT !.total = @ + prev]}]

\* INSERT OR REPLACE INTO score_totals
upsert_total(db, row) ==
    [db EXCEPT !.score_totals =
        { r \in @ : r.target_id # row.target_id } \cup {row}]

\* compute_score(target_id)
compute_score(db, target_id) ==
    LET criteria == get_criteria(db)
        threshold == int(get_config(db, "threshold", str(60)))
        names == { criteria[i].name : i \in 1..Len(criteria) }
        by_name(n) == CHOOSE r \in db.criteria : r.name = n
        details == [n \in names |-> score_detail(db, target_id, by_name(n))]
        total == sum_of([n \in names |-> details[n].awarded], names)
        max_possible == sum_of([n \in names |-> details[n].max], names)
        validated == total >= threshold
        result == [target_id |-> target_id, total |-> total,
                   max_possible |-> max_possible, validated |-> validated,
                   threshold |-> threshold, details |-> details]
        stored == upsert_total(db, result)
        entity_id == stored.targets[target_id].entity_id
    IN  conn_exit(db,
            IF ~references(db.targets, target_id)
            THEN [db |-> db, ret |-> "none", raised |-> "IntegrityError"]
            ELSE [db |-> IF entity_id # 0
                         THEN [stored EXCEPT !.entities[entity_id].status =
                                 IF validated THEN "validated" ELSE "scored"]
                         ELSE stored,
                  ret |-> result, raised |-> ""])

\* Variant of open_task_rows: a running task does not count
open_task_rows_pending(db, task_type, entity_id, target_id) ==
    { i \in 1..Len(db.tasks) :
        /\ db.tasks[i].type = task_type
        /\ db.tasks[i].entity_id = entity_id
        /\ db.tasks[i].target_id = target_id
        /\ db.tasks[i].status = "pending" }

\* SELECT id FROM tasks WHERE type=? AND entity_id=? AND target_id=?
\* AND status IN ('pending','running')
open_task_rows(db, task_type, entity_id, target_id) ==
    { i \in 1..Len(db.tasks) :
        /\ db.tasks[i].type = task_type
        /\ db.tasks[i].entity_id = entity_id
        /\ db.tasks[i].target_id = target_id
        /\ db.tasks[i].status \in {"pending", "running"} }

\* add_task(task_type, entity_id, target_id, priority) at time created_at
add_task(db, task_type, entity_id, target_id, priority, created_at) ==
    LET existing == open_task_rows(db, task_type, entity_id, target_id)
    IN  conn_exit(db,
            IF existing # {}
            THEN [db |-> db, ret |-> MinOf(existing), raised |-> ""]
            ELSE [db |-> [db EXCEPT !.tasks = Append(@,
                            [type |-> task_type, entity_id |-> entity_id,
                             target_id |-> target_id, status |-> "pending",
                             priority |-> priority, created_at |-> created_at])],
                  ret |-> Len(db.tasks) + 1, raised |-> ""])

\* Variant of first_pending: oldest first, whatever the priority
first_pending_fifo(db) ==
    LET pending == { i \in 1..Len(db.tasks) : db.tasks[i].status = "pending" }
    IN  { i \in pending :
            \A j \in pending : db.tasks[i].created_at <= db.tasks[j].created_at }

\* SELECT ... WHERE status='pending' ORDER BY priority ASC, created_at ASC
\* LIMIT 1: the ids that may come first
first_pending(db) ==
    LET pending == { i \in 1..Len(db.tasks) : db.tasks[i].status = "pending" }
    IN  { i \in pending :
            \A j \in pending :
               \/ db.tasks[i].priority < db.tasks[j].priority
               \/ /\ db.tasks[i].priority = db.tasks[j].priority
                  /\ db.tasks[i].created_at <= db.tasks[j].created_at }

\* get_next_task(): the outcomes, one for each row that may come first
get_next_task(db) ==
    IF first_pending(db) = {}
    THEN { conn_exit(db, [db |-> db, ret |-> 0, raised |-> ""]) }
    ELSE { conn_exit(db, [db |-> [db EXCEPT !.tasks[i].status = "running"],
                          ret |-> i, raised |-> ""]) :
             i \in first_pending(db) }

\* complete_task(task_id, error=...)
complete_task(db, task_id, error) ==
    conn_exit(db,
        [db |-> IF task_id \in 1..Len(db.tasks)
                THEN [db EXCEPT !.tasks[task_id].status =
                         IF error # "" THEN "failed" ELSE "done"]
                ELSE db,
         ret |-> "none", raised |-> ""])

----------------------------------------------------------------------------
(* SpecCost: one engine, its operations called in any order *)

NoCall == [op |-> "none", ret |-> ""]

RECURSIVE Misses(_, _, _)
\* k misses reported on one source
Misses(e, name, k) ==
    IF k = 0 THEN e
    ELSE Misses(report_result(e, name, 0, 1, 0), name, k - 1)

WarmEngine(w) ==
    LET e0 == add_source(add_source(NewEngine(LongConfig), "direct", w.p1),
                         "semi_direct", w.p2)
    IN  Misses(Misses(e0, "direct", w.k1), "semi_direct", w.k2)

InitCost ==
    /\ cost \in { NewEngine(cfg) : cfg \in Configs }
                  \cup { WarmEngine(w) : w \in WarmStarts }
    /\ lastCall = NoCall
    /\ roiExhausted = {}
    /\ calls = 0
    /\ app = AppState
    /\ task = [t \in TaskIds |-> NoTask]
    /\ disk = EmptyDisk
    /\ config = SmallConfig
    /\ graph = EmptyDb
    /\ gcall = NoGCall
    /\ handed = {}
    /\ now = 0

AddSource ==
    \E n \in SrcNames, p \in Priorities :
        /\ cost' = add_source(cost, n, p)
        /\ lastCall' = [op |-> "add_source", ret |-> ""]
        /\ UNCHANGED <<roiExhausted, calls, pipeVars, graphVars>>

ReportResult ==
    \E n \in SrcNames, r \in ReportInputs :
        /\ calls < MaxActions
        /\ calls' = calls + 1
        /\ cost' = report_result(cost, n, r.found, r.cost, r.value)
        /\ lastCall' = [op |-> "report_result", ret |-> ""]
        /\ UNCHANGED <<roiExhausted, pipeVars, graphVars>>

ShouldStop ==
    LET st == should_stop(cost)
    IN  /\ cost' = st.eng
        /\ lastCall' = [op |-> "should_stop",
                        ret |-> IF st.ret THEN "true" ELSE "false"]
        /\ UNCHANGED <<roiExhausted, calls, pipeVars, graphVars>>

ForceStop ==
    /\ cost' = force_stop(cost)
    /\ lastCall' = [op |-> "force_stop", ret |-> ""]
    /\ UNCHANGED <<roiExhausted, calls, pipeVars, graphVars>>

NextSource ==
    \E o \in next_source(cost) :
        /\ cost' = o.eng
        /\ lastCall' = [op |-> "next_source", ret |-> o.ret, branch |-> o.branch]
        /\ UNCHANGED <<calls, pipeVars, graphVars>>
        /\ roiExhausted' = roiExhausted \cup
               { n \in Registered(cost) :
                   ~cost.sources[n].exhausted /\ o.eng.sources[n].exhausted }

EvaluateAction ==
    \E n \in SrcNames :
        LET ev == evaluate_action(cost, n)
        IN  /\ cost' = ev.eng
            /\ lastCall' = [op |-> "evaluate_action",
                            ret |-> IF ev.execute THEN "go" ELSE ev.reason,
                            arg |-> n]
            /\ UNCHANGED <<roiExhausted, calls, pipeVars, graphVars>>

NextCost ==
    \/ AddSource
    \/ ReportResult
    \/ ShouldStop
    \/ ForceStop
    \/ NextSource
    \/ EvaluateAction

SpecCost == InitCost /\ [][NextCost]_vars

----------------------------------------------------------------------------
(* SpecPipe: the server's scan handlers and run_full_scan, one action per   *)
(* handler and per stretch of the coroutine between two awaits              *)

InitPipe ==
    /\ app = AppState
    /\ task = [t \in TaskIds |-> NoTask]
    /\ disk = EmptyDisk
    /\ config \in {SmallConfig, OneRegionConfig}
    /\ cost = NewEngine(LongConfig)
    /\ lastCall = NoCall
    /\ roiExhausted = {}
    /\ calls = 0
    /\ graph = EmptyDb
    /\ gcall = NoGCall
    /\ handed = {}
    /\ now = 0

World(t) == [tr |-> task[t], app |-> app, disk |-> disk]

Commit(t, s) ==
    /\ task' = [task EXCEPT ![t] = s.tr]
    /\ app' = s.app
    /\ disk' = s.disk
    /\ UNCHANGED <<costVars, graphVars, config>>

Step(t, tr) == Commit(t, [World(t) EXCEPT !.tr = tr])

\* start_llama succeeded
StartModel ==
    /\ AllSuspended
    /\ ~app.is_running
    /\ app' = [app EXCEPT !.is_running = TRUE]
    /\ UNCHANGED <<costVars, graphVars, task, disk, config>>

\* h_start_scan accepted: asyncio.create_task(run_full_scan()) in slot t
h_start_scan(t) ==
    /\ AllSuspended
    /\ app.is_running
    /\ ~app.scan_running
    /\ task[t].pc \in EndedPcs
    /\ task' = [task EXCEPT ![t] = [NoTask EXCEPT !.pc = "created"]]
    /\ UNCHANGED <<costVars, graphVars, app, disk, config>>

\* h_stop_scan
h_stop_scan ==
    /\ AllSuspended
    /\ app' = [app EXCEPT !.scan_running = FALSE]
    /\ task' = IF app.pipeline = 0 THEN task
               ELSE [task EXCEPT ![app.pipeline].running = FALSE]
    /\ UNCHANGED <<costVars, graphVars, disk, config>>

\* h_checkpoint_respond
h_checkpoint_respond ==
    \E action \in {"continue", "modify", "skip", "auto"},
       modifications \in {<<>>, <<"">>, <<"q">>} :
        /\ AllSuspended
        /\ action # "modify" => modifications = <<>>
        /\ app' = [app EXCEPT
               !.auto_mode = IF action = "auto" THEN TRUE ELSE @,
               !.checkpoint_response =
                   IF action = "auto" THEN "continue" ELSE action,
               !.checkpoint_modifications =
                   IF action = "modify" THEN modifications ELSE @,
               !.checkpoint_waiting = FALSE,
               !.checkpoint_event = IF @ = "none" THEN "none" ELSE "set"]
        /\ UNCHANGED <<costVars, graphVars, task, disk, config>>

\* h_set_auto_mode
h_set_auto_mode ==
    \E auto \in BOOLEAN :
        /\ AllSuspended
        /\ app' = [app EXCEPT !.auto_mode = auto]
        /\ UNCHANGED <<costVars, graphVars, task, disk, config>>

\* The server process is killed and started again: memory is lost, files stay
ProcessRestart ==
    /\ AllSuspended
    /\ app' = AppState
    /\ task' = [t \in TaskIds |-> NoTask]
    /\ UNCHANGED <<costVars, graphVars, disk, config>>

\* run_full_scan from its first line to the loop over the regions
ScanStart(t) ==
    /\ task[t].pc = "created"
    /\ app' = [app EXCEPT !.scan_running = TRUE, !.results = {},
                          !.resolution_status = <<>>, !.pipeline = t]
    /\ task' = [task EXCEPT ![t] =
           [NoTask EXCEPT !.pc = "region_top", !.idx = 1, !.running = TRUE,
                          !.resume_state = load_resume(disk)]]
    /\ UNCHANGED <<costVars, graphVars, disk, config>>

\* The head of the loop over the regions, up to the call of process_state
RegionTop(t) ==
    LET tr == task[t]
        st == should_stop(tr.cost)
    IN  /\ tr.pc = "region_top"
        /\ IF tr.idx > Len(US_STATES_CITIES) \/ ~app.scan_running
           THEN Step(t, [tr EXCEPT !.pc = "finish"])
           ELSE IF should_skip(tr.resume_state, US_STATES_CITIES[tr.idx].state)
           THEN Step(t, [tr EXCEPT !.idx = @ + 1])
           ELSE IF st.ret
           THEN Step(t, [tr EXCEPT !.cost = st.eng, !.pc = "finish"])
           ELSE Step(t, [tr EXCEPT
                    !.cost = st.eng,
                    !.sr = StateResolution(US_STATES_CITIES[tr.idx].state,
                                           US_STATES_CITIES[tr.idx].cities),
                    !.invoked = @ \cup {US_STATES_CITIES[tr.idx].state},
                    !.city_idx = 1,
                    !.pc = "city_top"])

\* process_state: the head of the loop over the localities
CityTop(t) ==
    LET tr == task[t]
    IN  /\ tr.pc = "city_top"
        /\ IF tr.city_idx > Len(Cities(tr)) \/ ~tr.running
           THEN Step(t, [tr EXCEPT !.pc = "state_done"])
           ELSE Step(t, [tr EXCEPT !.sr.cities[CityName(tr)].status = IN_PROGRESS,
                                   !.wave = 1, !.pc = "wave_top"])

\* _process_city: the head of the loop over the waves
WaveTop(t) ==
    LET tr == task[t]
        cats == tr.sr.cities[CityName(tr)].categories
        unresolved == SelectSeq(CATEGORIES,
                          LAMBDA k : cats[k].status \notin {RESOLVED, FAILED})
    IN  /\ tr.pc = "wave_top"
        /\ IF tr.wave > MAX_WAVES \/ ~tr.running \/ unresolved = <<>>
           THEN Step(t, [tr EXCEPT !.pc = "city_done"])
           ELSE Step(t, [tr EXCEPT !.unresolved = unresolved, !.pc = "cat_top"])

\* _process_city: the head of the loop over the unresolved categories, and
\* the first lines of _process_category_wave up to the await of the queries
CatTop(t) ==
    LET tr == task[t]
        k == Head(tr.unresolved)
    IN  /\ tr.pc = "cat_top"
        /\ IF tr.unresolved = <<>> \/ ~tr.running
           THEN IF city_is_resolved(tr.sr.cities[CityName(tr)])
                THEN Step(t, [tr EXCEPT !.pc = "city_done"])
                ELSE Step(t, [tr EXCEPT !.wave = @ + 1, !.pc = "wave_top"])
           ELSE Step(t, [tr EXCEPT
                    !.cat_key = k,
                    !.sr.cities[CityName(tr)].categories[k].status = IN_PROGRESS,
                    !.sr.cities[CityName(tr)].categories[k].waves_attempted = tr.wave,
                    !.queries = <<>>, !.cp = "", !.trace = NoTrace,
                    !.pc = "generate_queries"])

\* Phase 1: the queries come back; none fails the category, else checkpoint 1
GenerateQueries(t) ==
    \E queries \in {<<>>, <<"q">>} :
        LET tr == task[t]
        IN  /\ tr.pc = "generate_queries"
            /\ IF queries = <<>>
               THEN Step(t, fail_category(tr, "No queries"))
               ELSE Commit(t, checkpoint(
                        [World(t) EXCEPT !.tr.queries = queries], "queries_ready"))

\* checkpoint(): the sleep of the waiting loop returns
CheckpointWakes(t) ==
    /\ task[t].pc = "checkpoint"
    /\ app.checkpoint_event = "set" \/ ~app.scan_running
    /\ Commit(t, checkpoint_wakes(World(t)))

\* Phase 2: _search returns; unique results are deduplicated and reported.
\* The browser loop stops at once when the orchestrator is stopped; the HTTP
\* fallback does not look at the flag.
Search(t) ==
    \E browser \in BOOLEAN, found \in SearchOutcomes :
        LET tr == task[t]
            unique == found.unique
            yt_in_results == found.yt_in_results
            tr1 == IF browser /\ tr.running
                   THEN [tr EXCEPT !.cost = search_evaluates(@, tr.queries)]
                   ELSE tr
            tr2 == did(tr1, IF unique = 0 THEN {"search", "no_results"}
                            ELSE {"search"})
        IN  /\ tr.pc = "search"
            /\ tr.queries = <<>> => unique = 0
            /\ (browser /\ ~tr.running) => unique = 0
            /\ IF unique = 0
               THEN Step(t, search_empty(tr2))
               ELSE Commit(t, checkpoint(
                        [World(t) EXCEPT !.tr =
                            reported(tr2, source_tier(tr.wave), yt_in_results,
                                     Len(tr.queries), 0)],
                        "search_done"))

\* Phase 3: triage_results returns the pages to fetch
Triage(t) ==
    \E to_fetch \in 0..1 :
        LET tr == did(task[t], {"triage"})
        IN  /\ task[t].pc = "triage"
            /\ IF to_fetch = 0
               THEN Step(t, escalate(tr))
               ELSE Step(t, [tr EXCEPT !.pc = "fetch"])

\* Phase 4: pages fetched and fragments extracted, unless stopped at the
\* first page
Fetch(t) ==
    \E all_frags \in 0..1 :
        LET tr == did(task[t], {"fetch", "extract"})
        IN  /\ task[t].pc = "fetch"
            /\ ~task[t].running => all_frags = 0
            /\ IF all_frags = 0
               THEN Step(t, escalate(tr))
               ELSE Step(t, [tr EXCEPT !.pc = "assemble"])

\* Phase 5: candidates assembled and fed to the graph, then checkpoint 3
Assemble(t) ==
    \E candidates \in 0..1 :
        LET tr == did(task[t], {"assemble"})
        IN  /\ task[t].pc = "assemble"
            /\ IF candidates = 0
               THEN Step(t, escalate(tr))
               ELSE Commit(t, checkpoint(
                        [World(t) EXCEPT !.tr = did(tr, {"graph"})],
                        "candidates_found"))

\* Phases 5b to 7: follow-ups, then verification of the candidates, unless
\* stopped at the first candidate
Verify(t) ==
    \E channels \in CHANNELS :
        LET tr == did(task[t], {"followups", "verify"})
        IN  /\ task[t].pc = "verify"
            /\ ~task[t].running => channels = <<>>
            /\ Step(t, verified_outcome(tr, verify_youtube(channels)))

\* _escalate: analyze_failure returns
AnalyzeFailure(t) ==
    /\ task[t].pc = "analyze_failure"
    /\ Step(t, return_from_wave(task[t]))

\* _process_city after the waves: what is not terminal is failed
CityDone(t) ==
    LET tr == task[t]
        c == CityName(tr)
        cats == [k \in DOMAIN tr.sr.cities[c].categories |->
                    LET v == tr.sr.cities[c].categories[k]
                    IN  IF v.status \notin {RESOLVED, FAILED}
                        THEN [v EXCEPT !.status = FAILED,
                                       !.failure_reason = "Exhausted MAX_WAVES waves"]
                        ELSE v]
        cr == [tr.sr.cities[c] EXCEPT !.categories = cats]
    IN  /\ tr.pc = "city_done"
        /\ Step(t, [tr EXCEPT
               !.sr.cities[c] = [cr EXCEPT !.status =
                   IF city_is_resolved(cr) THEN RESOLVED ELSE PARTIAL],
               !.city_idx = @ + 1, !.unresolved = <<>>, !.cat_key = "",
               !.wave = 0, !.pc = "city_top"])

\* process_state returns and run_full_scan records the region
StateDone(t) ==
    LET tr == task[t]
        sr == [tr.sr EXCEPT !.status =
                  IF state_is_resolved(tr.sr) THEN RESOLVED ELSE PARTIAL]
        states == [n \in DOMAIN tr.states \cup {sr.state} |->
                      IF n = sr.state THEN sr ELSE tr.states[n]]
    IN  /\ tr.pc = "state_done"
        /\ Commit(t, [tr |-> [tr EXCEPT !.states = states, !.sr = NoResolution,
                                        !.city_idx = 0, !.pc = "save"],
                      app |-> [app EXCEPT
                          !.resolution_status =
                              [n \in DOMAIN @ \cup {sr.state} |->
                                  IF n = sr.state THEN sr ELSE @[n]],
                          !.results = @ \cup DOMAIN states],
                      disk |-> disk])

\* _save() after a region
Save(t) ==
    /\ task[t].pc = "save"
    /\ Commit(t, [tr |-> [task[t] EXCEPT !.pc = "cost_save"], app |-> app,
                  disk |-> save_files(app, disk)])

\* pipe.cost.save() after a region, then on to the next region
CostSave(t) ==
    LET tr == task[t]
        w == cost_save(tr.cost, "")
    IN  /\ tr.pc = "cost_save"
        /\ IF w.raised
           THEN Step(t, [tr EXCEPT !.pc = "crashed"])
           ELSE Commit(t, [tr |-> [tr EXCEPT !.idx = @ + 1, !.pc = "region_top"],
                           app |-> app,
                           disk |-> [disk EXCEPT !.cost_state = w.file]])

\* After the loop: scan_running cleared and _save()
Finish(t) ==
    LET a == [app EXCEPT !.scan_running = FALSE]
    IN  /\ task[t].pc = "finish"
        /\ Commit(t, [tr |-> [task[t] EXCEPT !.pc = "final_cost_save"],
                      app |-> a, disk |-> save_files(a, disk)])

\* pipe.cost.save() after the loop, then the closing log lines
FinalCostSave(t) ==
    LET tr == task[t]
        w == cost_save(tr.cost, "")
    IN  /\ tr.pc = "final_cost_save"
        /\ IF w.raised
           THEN Step(t, [tr EXCEPT !.pc = "crashed"])
           ELSE Commit(t, [tr |-> [tr EXCEPT !.pc = "done"], app |-> app,
                           disk |-> [disk EXCEPT !.cost_state = w.file]])

\* One step of the scan task in slot t
TaskStep(t) ==
    \/ ScanStart(t)
    \/ RegionTop(t)
    \/ CityTop(t)
    \/ WaveTop(t)
    \/ CatTop(t)
    \/ GenerateQueries(t)
    \/ CheckpointWakes(t)
    \/ Search(t)
    \/ Triage(t)
    \/ Fetch(t)
    \/ Assemble(t)
    \/ Verify(t)
    \/ AnalyzeFailure(t)
    \/ CityDone(t)
    \/ StateDone(t)
    \/ Save(t)
    \/ CostSave(t)
    \/ Finish(t)
    \/ FinalCostSave(t)

\* SpecPipe explores one scan task at a time, in slot 1. Checkpoints are
\* passed in auto mode, or stay open until the scan is stopped.
NextPipe ==
    \/ StartModel
    \/ h_start_scan(1)
    \/ h_stop_scan
    \/ h_set_auto_mode
    \/ ProcessRestart
    \/ TaskStep(1)

SpecPipe == InitPipe /\ [][NextPipe]_vars

\* The same task and handlers on one region, of two localities with one
\* category or of one locality with two categories
InitLoops ==
    /\ app = AppState
    /\ task = [t \in TaskIds |-> NoTask]
    /\ disk = EmptyDisk
    /\ config \in {TwoCityConfig, OneRegionConfig}
    /\ cost = NewEngine(LongConfig)
    /\ lastCall = NoCall
    /\ roiExhausted = {}
    /\ calls = 0
    /\ graph = EmptyDb
    /\ gcall = NoGCall
    /\ handed = {}
    /\ now = 0

SpecLoops == InitLoops /\ [][NextPipe]_vars

\* Two scan tasks on one event loop: a task runs from one await to the next
\* while every other task is suspended
Run(t) ==
    /\ \A u \in TaskIds \ {t} : task[u].pc \in AwaitPcs \cup EndedPcs
    /\ TaskStep(t)

InitScans ==
    /\ app = AppState
    /\ task = [t \in TaskIds |-> NoTask]
    /\ disk = EmptyDisk
    /\ config = OneCategoryConfig
    /\ cost = NewEngine(LongConfig)
    /\ lastCall = NoCall
    /\ roiExhausted = {}
    /\ calls = 0
    /\ graph = EmptyDb
    /\ gcall = NoGCall
    /\ handed = {}
    /\ now = 0

\* A start request takes the lowest slot never used: SpecScans follows the
\* first scans of a process, as many as there are slots
StartScan(t) ==
    /\ task[t].pc = "idle"
    /\ \A u \in TaskIds : u < t => task[u].pc # "idle"
    /\ h_start_scan(t)

NextScans ==
    \/ StartModel
    \/ \E t \in TaskIds : StartScan(t)
    \/ h_stop_scan
    \/ h_set_auto_mode
    \/ \E t \in TaskIds : Run(t)

SpecScans == InitScans /\ [][NextScans]_vars

----------------------------------------------------------------------------
(* SpecEntities, SpecScores, SpecTasks: one GraphScorer on a new store, its  *)
(* operations called in any order by its single writer                      *)

\* Nothing but the graph store takes part in these specifications
IdleOutsideGraph ==
    /\ cost = NewEngine(LongConfig)
    /\ lastCall = NoCall
    /\ roiExhausted = {}
    /\ calls = 0
    /\ app = AppState
    /\ task = [t \in TaskIds |-> NoTask]
    /\ disk = EmptyDisk
    /\ config = SmallConfig

InitEntities ==
    /\ IdleOutsideGraph
    /\ graph = EmptyDb
    /\ gcall = NoGCall
    /\ handed = {}
    /\ now = 0

AddEntity ==
    \E key \in EntityKeys, kind \in EntityKinds :
        LET r == add_entity(graph, key[1], kind, key[2], "found")
        IN  /\ Len(r.db.entities) <= MaxEntities
            /\ graph' = r.db
            /\ gcall' = [op |-> "add_entity", name |-> key[1], kind |-> kind,
                         city |-> key[2], ret |-> r.ret, raised |-> r.raised]
            /\ UNCHANGED <<costVars, pipeVars, handed, now>>

AddTarget ==
    \E url \in TargetUrls, entity_id \in EntityIdArgs, platform \in Platforms :
        LET r == add_target(graph, url, entity_id, platform)
        IN  /\ Len(r.db.targets) <= MaxTargets
            /\ graph' = r.db
            /\ gcall' = [op |-> "add_target", url |-> url,
                         entity_id |-> entity_id, platform |-> platform,
                         ret |-> r.ret, raised |-> r.raised]
            /\ UNCHANGED <<costVars, pipeVars, handed, now>>

NextEntities ==
    \/ AddEntity
    \/ AddTarget

SpecEntities == InitEntities /\ [][NextEntities]_vars

\* The store SpecScores starts from: one entity and its target, as the
\* orchestrator feeds them in
ScoredStart ==
    add_target(add_entity(EmptyDb, "a", "person", "x", "target_found").db,
               "u1", 1, "youtube").db

\* target_id arguments of set_criterion and compute_score: the stored
\* target and one that does not exist
TargetIdArgs == 1..2

InitScores ==
    /\ IdleOutsideGraph
    /\ graph = ScoredStart
    /\ gcall = NoGCall
    /\ handed = {}
    /\ now = 0

ConfigureCriteria ==
    \E criteria \in CriteriaLists, threshold \in Thresholds :
        LET r == configure_criteria(graph, criteria, threshold)
        IN  /\ graph' = r.db
            /\ gcall' = [op |-> "configure_criteria", criteria |-> criteria,
                         threshold |-> threshold, ret |-> r.ret,
                         raised |-> r.raised]
            /\ UNCHANGED <<costVars, pipeVars, handed, now>>

SetCriterion ==
    \E target_id \in TargetIdArgs, name \in CriterionNames, met \in BOOLEAN :
        LET r == set_criterion(graph, target_id, name, met)
        IN  /\ graph' = r.db
            /\ gcall' = [op |-> "set_criterion", target_id |-> target_id,
                         ret |-> r.ret, raised |-> r.raised]
            /\ UNCHANGED <<costVars, pipeVars, handed, now>>

ComputeScore ==
    \E target_id \in TargetIdArgs :
        LET r == compute_score(graph, target_id)
        IN  /\ graph' = r.db
            /\ gcall' = [op |-> "compute_score", target_id |-> target_id,
                         ret |-> r.ret, raised |-> r.raised,
                         repeated |-> /\ gcall.op = "compute_score"
                                      /\ gcall.target_id = target_id]
            /\ UNCHANGED <<costVars, pipeVars, handed, now>>

NextScores ==
    \/ ConfigureCriteria
    \/ SetCriterion
    \/ ComputeScore

SpecScores == InitScores /\ [][NextScores]_vars

InitTasks ==
    /\ IdleOutsideGraph
    /\ graph = EmptyDb
    /\ gcall = NoGCall
    /\ handed = {}
    /\ now = 0

AddTask ==
    \E key \in TaskKeys, priority \in TaskPriorities :
        LET r == add_task(graph, key[1], key[2], key[3], priority, now + 1)
        IN  /\ Len(r.db.tasks) <= MaxTasks
            /\ graph' = r.db
            /\ now' = IF r.db = graph THEN now ELSE now + 1
            /\ gcall' = [op |-> "add_task", key |-> key, ret |-> r.ret,
                         raised |-> r.raised]
            /\ UNCHANGED <<costVars, pipeVars, handed>>

GetNextTask ==
    \E r \in get_next_task(graph) :
        /\ graph' = r.db
        /\ handed' = IF r.ret = 0 THEN handed ELSE handed \cup {r.ret}
        /\ gcall' = [op |-> "get_next_task", ret |-> r.ret, raised |-> r.raised]
        /\ UNCHANGED <<costVars, pipeVars, now>>

CompleteTask ==
    \E task_id \in 1..MaxTasks, error \in {"", "timeout"} :
        LET r == complete_task(graph, task_id, error)
        IN  /\ graph' = r.db
            /\ gcall' = [op |-> "complete_task", ret |-> r.ret,
                         raised |-> r.raised]
            /\ UNCHANGED <<costVars, pipeVars, handed, now>>

NextTasks ==
    \/ AddTask
    \/ GetNextTask
    \/ CompleteTask

SpecTasks == InitTasks /\ [][NextTasks]_vars

----------------------------------------------------------------------------
(* Properties of the Cost/Value Engine, checked under SpecCost *)

\* p - k*d for a source with k attempts
PatienceLeft(s) ==
    cost.cfg.patience_initial - s.attempts * cost.cfg.patience_drain

\* C5: a source that has only seen misses since it was registered (k of
\* them, none of them followed by a ROI-floor rejection) has patience
\* max(0, p - k*d) and is exhausted exactly when p - k*d <= 0.
C5_MissesDrainPatience ==
    \A n \in Registered(cost) :
        LET s == cost.sources[n]
        IN  (s.hits = 0 /\ n \notin roiExhausted) =>
               /\ s.misses = s.attempts
               /\ s.patience = Max(0, PatienceLeft(s))
               /\ (s.exhausted <=> PatienceLeft(s) <= 0)

\* A source exhausted by at least three misses alone, the last one draining
\* past zero
C5_Witness ==
    \E n \in Registered(cost) :
        LET s == cost.sources[n]
        IN  /\ s.hits = 0 /\ n \notin roiExhausted
            /\ s.attempts >= 3
            /\ PatienceLeft(s) < 0
            /\ s.exhausted /\ s.patience = 0

\* C6: a should_stop() call made while the engine is not stopped and
\* total_found >= target_count returns true and records target_reached,
\* whatever the budget and the sources are.
C6_TargetReachedStops ==
    [][ (/\ lastCall'.op = "should_stop"
         /\ ~cost.stopped
         /\ cost.total_found >= cost.cfg.target_count)
        => (/\ lastCall'.ret = "true"
            /\ cost'.stopped
            /\ cost'.stop_reason = "target_reached") ]_vars

\* should_stop() has returned true for target_reached with budget left and
\* a source still active
C6_Witness ==
    /\ lastCall = [op |-> "should_stop", ret |-> "true"]
    /\ cost.stop_reason = "target_reached"
    /\ cost.total_actions < cost.cfg.global_budget
    /\ Active(cost) # {}

\* C7: once the engine is stopped it stays stopped, every should_stop()
\* that returns true leaves it stopped, and every should_stop() called on
\* a stopped engine returns true, whatever was called in between.
C7_StopIsTerminal ==
    [][ /\ cost.stopped => cost'.stopped
        /\ (lastCall'.op = "should_stop" /\ lastCall'.ret = "true")
              => cost'.stopped
        /\ (lastCall'.op = "should_stop" /\ cost.stopped)
              => lastCall'.ret = "true" ]_vars

\* should_stop() returned true on an engine stopped for exhaustion of all
\* sources, after a new source was registered and no other condition holds
C7_Witness ==
    /\ lastCall = [op |-> "should_stop", ret |-> "true"]
    /\ cost.stop_reason = "all_sources_exhausted"
    /\ Active(cost) # {}
    /\ cost.total_found < cost.cfg.target_count
    /\ cost.total_actions < cost.cfg.global_budget

\* C8: an exhausted source stays registered and exhausted in every step.
C8_ExhaustedIsTerminal ==
    [][ \A n \in Registered(cost) :
          cost.sources[n].exhausted =>
             n \in Registered(cost') /\ cost'.sources[n].exhausted ]_vars

\* A source exhausted by misses whose patience a later hit recharged
C8_Witness ==
    \E n \in Registered(cost) :
        /\ n \notin roiExhausted
        /\ cost.sources[n].exhausted
        /\ cost.sources[n].hits > 0
        /\ cost.sources[n].patience > 0

\* m comes before n in max(active, key = effective_priority)
Outranks(e, m, n) ==
    LET pos(x) == CHOOSE i \in 1..Len(e.order) : e.order[i] = x
    IN  \/ ~ep_geq(e.sources[n], e.sources[m])
        \/ ep_geq(e.sources[m], e.sources[n]) /\ pos(m) < pos(n)

\* C9: a source becomes exhausted only (a) in report_result with a miss
\* that leaves no patience, or (b) in next_source when it has more than 5
\* attempts, a predicted ROI below min_roi and every active source ranked
\* above it was exhausted by the same call.
C9_ExhaustionCauses ==
    [][ \A n \in Registered(cost) :
          (~cost.sources[n].exhausted /\ cost'.sources[n].exhausted) =>
             LET s == cost.sources[n]
                 t == cost'.sources[n]
             IN  \/ /\ lastCall'.op = "report_result"
                    /\ t.attempts = s.attempts + 1
                    /\ t.misses = s.misses + 1
                    /\ t.hits = s.hits
                    /\ s.patience - cost.cfg.patience_drain <= 0
                    /\ t.patience = 0
                 \/ /\ lastCall'.op = "next_source"
                    /\ s.attempts > RoiGraceAttempts
                    /\ roi_below_min(s)
                    /\ t = [s EXCEPT !.exhausted = TRUE]
                    /\ \A m \in Active(cost) \ {n} :
                          Outranks(cost, m, n) => cost'.sources[m].exhausted ]_vars

\* next_source has exhausted the top-ranked of two active sources for its
\* ROI and returned the other one
C9_Witness ==
    /\ lastCall.op = "next_source"
    /\ lastCall.ret \in Active(cost)
    /\ \E n \in roiExhausted : cost.sources[n].patience > 0

\* C10: every source has 0 <= patience <= 2 * patience_initial.
C10_PatienceBounds ==
    \A n \in Registered(cost) :
        /\ cost.sources[n].patience >= 0
        /\ cost.sources[n].patience <= 2 * cost.cfg.patience_initial

\* A hit has recharged a source up to the cap, and a miss has drained
\* another one to the floor
C10_Witness ==
    /\ \E n \in Registered(cost) :
          /\ cost.sources[n].hits > 0
          /\ cost.sources[n].patience = 2 * cost.cfg.patience_initial
          /\ cost.cfg.patience_initial + cost.cfg.patience_recharge
                 > 2 * cost.cfg.patience_initial
    /\ \E n \in Registered(cost) :
          cost.sources[n].misses > 0 /\ cost.sources[n].patience = 0

\* C11: evaluate_action on a registered, non-exhausted source with at most
\* 5 attempts answers execute = true whenever should_stop is false, whatever
\* the predicted ROI; it answers "ROI too low" only for a source with more
\* than 5 attempts whose predicted ROI is below min_roi.
C11_GracePeriod ==
    [][ lastCall'.op = "evaluate_action" =>
          LET n == lastCall'.arg
          IN  /\ ( /\ n \in Registered(cost)
                   /\ ~cost.sources[n].exhausted
                   /\ cost.sources[n].attempts <= RoiGraceAttempts
                   /\ ~should_stop(cost).ret )
                 => lastCall'.ret = "go"
              /\ lastCall'.ret = "roi_too_low"
                 => /\ n \in Registered(cost)
                    /\ cost.sources[n].attempts > RoiGraceAttempts
                    /\ roi_below_min(cost.sources[n]) ]_vars

\* evaluate_action has answered "go" for a source in its grace period whose
\* predicted ROI is below min_roi
C11_Witness ==
    /\ lastCall.op = "evaluate_action"
    /\ lastCall.ret = "go"
    /\ cost.sources[lastCall.arg].attempts > 0
    /\ cost.sources[lastCall.arg].attempts <= RoiGraceAttempts
    /\ roi_below_min(cost.sources[lastCall.arg])

\* C12: next_source returns a registered source that is not exhausted when
\* the call returns, or none; none only when every registered source is
\* exhausted at return; the explore branch returns only with more than one
\* active source and never returns the top-ranked one.
C12_NextSourceResult ==
    [][ lastCall'.op = "next_source" =>
          /\ lastCall'.ret # "none"
                 => /\ lastCall'.ret \in Registered(cost')
                    /\ ~cost'.sources[lastCall'.ret].exhausted
          /\ lastCall'.ret = "none"
                 => \A n \in Registered(cost') : cost'.sources[n].exhausted
          /\ lastCall'.branch = "explore"
                 => /\ Cardinality(Active(cost')) > 1
                    /\ lastCall'.ret # best_source(cost') ]_vars

\* The explore branch has returned the lower-ranked of two active sources
C12_Witness ==
    /\ lastCall.op = "next_source"
    /\ lastCall.branch = "explore"
    /\ lastCall.ret \in Active(cost)
    /\ \E m \in Active(cost) : Outranks(cost, m, lastCall.ret)

----------------------------------------------------------------------------
(* Properties of the Resolution Orchestrator, checked under SpecPipe *)

\* C1: after every region whose processing finishes, run_full_scan has the
\* results snapshot, the resume marker and the Cost Engine state dump on
\* disk, and goes on to the next region: the step that leaves the save of the
\* engine state leaves all three files written, with the region in the
\* snapshot and in the marker, and the loop at the head of the next region.
C1_RegionSavedThenNext ==
    [][\A t \in TaskIds :
          (task[t].pc = "cost_save" /\ task'[t].pc # "cost_save") =>
              /\ disk'.results.exists
              /\ DOMAIN task[t].states \subseteq disk'.results.states
              /\ disk'.resume.exists
              /\ DOMAIN task[t].states \subseteq disk'.resume.states
              /\ disk'.cost_state.exists
              /\ task'[t].pc = "region_top"
              /\ task'[t].idx = task[t].idx + 1]_vars

\* A locality process_state has built and _process_city has not entered yet
Untouched(cr) ==
    /\ cr.status = PENDING
    /\ \A k \in DOMAIN cr.categories : cr.categories[k] = CategoryResolution

\* C2: in a run that found a resume marker, process_state is never invoked
\* for a region the marker lists, and a region the run does process starts
\* with every category pending: the localities the run has not entered yet
\* hold only pending categories with no wave attempted.
C2_ResumeSkipsListed ==
    \A t \in TaskIds :
        LET tr == task[t]
        IN  tr.resume_state.loaded =>
                /\ tr.invoked \cap tr.resume_state.states = {}
                /\ tr.sr.state \notin tr.resume_state.states
                /\ tr.sr.state # "" =>
                       \A i \in 1..Len(Cities(tr)) :
                           (i > tr.city_idx \/ (i = tr.city_idx /\ tr.pc = "city_top"))
                               => Untouched(tr.sr.cities[Cities(tr)[i]])

\* A resumed run has skipped the listed region and is working on the next one
C2_Witness ==
    \E t \in TaskIds :
        /\ task[t].resume_state.loaded
        /\ task[t].resume_state.states = {"Alabama"}
        /\ task[t].idx = 2
        /\ task[t].sr.state = "Alaska"
        /\ task[t].invoked = {"Alaska"}
        /\ task[t].pc = "generate_queries"

\* The moves of a category's status that the chain
\* pending -> in_progress -> resolved | failed allows
StatusMoves ==
    { <<PENDING, IN_PROGRESS>>, <<IN_PROGRESS, RESOLVED>>, <<IN_PROGRESS, FAILED>> }

\* C3: a category's status only moves pending -> in_progress -> resolved or
\* failed: every step of a scan task leaves the status of every category of
\* the region in hand as it was or moves it along that chain, so a terminal
\* status is never changed and pending is never re-entered.
C3_StatusChain ==
    [][\A t \in TaskIds :
          (task[t].sr.state # "" /\ task'[t].sr.state = task[t].sr.state) =>
              \A c \in DOMAIN task[t].sr.cities :
                  \A k \in DOMAIN task[t].sr.cities[c].categories :
                      LET old == task[t].sr.cities[c].categories[k].status
                          new == task'[t].sr.cities[c].categories[k].status
                      IN  old = new \/ <<old, new>> \in StatusMoves]_vars

\* The phases that follow the search in a category-wave
LaterPhases ==
    {"triage", "fetch", "extract", "assemble", "graph", "followups", "verify"}

\* C4: a category-wave whose search returns no unique result reports exactly
\* one miss (found = 0) to the Cost Engine and goes straight to
\* escalate-or-fail: none of triage, fetch, extraction, assembly, graph
\* update, follow-ups or verification runs in that category-wave.
C4_EmptySearchOneMiss ==
    \A t \in TaskIds :
        LET tr == task[t]
        IN  "no_results" \in tr.trace.did =>
                /\ Len(tr.trace.reports) = 1
                /\ tr.trace.reports[1].found = 0
                /\ "escalate" \in tr.trace.did
                /\ tr.trace.did \cap LaterPhases = {}
                /\ tr.pc \notin {"checkpoint", "triage", "fetch", "assemble", "verify"}

\* A search came back empty before the last wave and the failure analysis
\* is awaited
C4_Witness ==
    \E t \in TaskIds :
        /\ "no_results" \in task[t].trace.did
        /\ task[t].pc = "analyze_failure"
        /\ task[t].wave = 2

----------------------------------------------------------------------------
(* Properties of the Entity-Graph Scorer: entities and targets, checked     *)
(* under SpecEntities                                                       *)

\* C13: an add_entity call whose (name, city) is already stored returns the
\* id of the row the first call with that pair inserted and inserts no row;
\* a call with a new pair returns the id of the row it inserts; the store
\* never holds two entities with the same (name, city).
C13_EntityDedup ==
    [][ gcall'.op = "add_entity" =>
          LET stored == { i \in 1..Len(graph.entities) :
                            /\ graph.entities[i].name = gcall'.name
                            /\ graph.entities[i].city = gcall'.city }
          IN  /\ stored # {} => /\ gcall'.ret \in stored
                                /\ graph'.entities = graph.entities
              /\ stored = {} => /\ gcall'.ret = Len(graph.entities) + 1
                                /\ Len(graph'.entities) = gcall'.ret
                                /\ graph'.entities[gcall'.ret].name = gcall'.name
                                /\ graph'.entities[gcall'.ret].city = gcall'.city
              /\ \A i, j \in 1..Len(graph'.entities) :
                    ( /\ graph'.entities[i].name = graph'.entities[j].name
                      /\ graph'.entities[i].city = graph'.entities[j].city )
                    => i = j ]_vars

\* add_entity has returned the id of an older row for a pair stored with
\* another kind, and a second entity is stored
C13_Witness ==
    /\ gcall.op = "add_entity"
    /\ gcall.ret < Len(graph.entities)
    /\ graph.entities[gcall.ret].name = gcall.name
    /\ graph.entities[gcall.ret].city = gcall.city
    /\ graph.entities[gcall.ret].kind # gcall.kind

\* C14: add_target with a URL already stored returns the stored target's id,
\* inserts nothing and leaves every field of that target as it was, except
\* that a target stored with no entity link (entity_id 0) takes the
\* entity_id the call supplies; add_target with a new URL and no entity_id
\* stores a target with no entity link.
C14_TargetDedup ==
    [][ gcall'.op = "add_target" =>
          LET stored == { i \in 1..Len(graph.targets) :
                            graph.targets[i].url = gcall'.url }
              id == MinOf(stored)
          IN  /\ stored # {} =>
                    /\ gcall'.raised = ""
                    /\ gcall'.ret = id
                    /\ Len(graph'.targets) = Len(graph.targets)
                    /\ \A i \in 1..Len(graph.targets) :
                          i # id => graph'.targets[i] = graph.targets[i]
                    /\ graph'.targets[id] =
                          IF graph.targets[id].entity_id = 0 /\ gcall'.entity_id # 0
                          THEN [graph.targets[id] EXCEPT
                                  !.entity_id = gcall'.entity_id]
                          ELSE graph.targets[id]
              /\ (stored = {} /\ gcall'.entity_id = 0) =>
                    /\ gcall'.raised = ""
                    /\ gcall'.ret = Len(graph.targets) + 1
                    /\ graph'.targets = Append(graph.targets,
                          [entity_id |-> 0, platform |-> gcall'.platform,
                           url |-> gcall'.url]) ]_vars

----------------------------------------------------------------------------
(* Properties of the Entity-Graph Scorer: criteria and scores, checked      *)
(* under SpecScores                                                         *)

\* C15: for every configured criterion, the points compute_score counts for
\* a target are the criterion's configured points when the target's score
\* row for it is met, and 0 otherwise.
C15_CountedPoints ==
    [][ (gcall'.op = "compute_score" /\ gcall'.raised = "") =>
          \A cr \in graph.criteria :
             LET sc == score_rows(graph, gcall'.target_id, cr.name)
                 met == sc # {} /\ (CHOOSE r \in sc : TRUE).met
             IN  gcall'.ret.details[cr.name].awarded =
                    IF met THEN cr.points ELSE 0 ]_vars

\* C16: compute_score is idempotent: called again on the same target right
\* after a compute_score that returned, it returns the same total,
\* max_possible, validated flag, threshold and breakdown and leaves the
\* stored aggregate, the entity's status and the rest of the store as the
\* first call left them.
C16_ComputeScoreIdempotent ==
    [][ ( /\ gcall.op = "compute_score"
          /\ gcall.raised = ""
          /\ gcall'.op = "compute_score"
          /\ gcall'.target_id = gcall.target_id )
        => /\ gcall'.raised = ""
           /\ gcall'.ret = gcall.ret
           /\ graph' = graph ]_vars

\* compute_score has run twice in a row on a target with a positive total
\* that validates its entity
C16_Witness ==
    /\ gcall.op = "compute_score"
    /\ gcall.raised = ""
    /\ gcall.repeated
    /\ gcall.ret.total > 0
    /\ gcall.ret.validated
    /\ graph.entities[graph.targets[gcall.target_id].entity_id].status = "validated"

\* The points stored in the score rows of a target for a set of criteria
StoredPoints(db, target_id, names) ==
    sum_of([n \in names |->
               LET sc == score_rows(db, target_id, n)
               IN  IF sc = {} THEN 0 ELSE (CHOOSE r \in sc : TRUE).points_awarded],
           names)

\* C17: after a configure_criteria(list, threshold) that returns, the
\* configured criteria are those of list in list order and no other,
\* get_threshold() is threshold; a compute_score counts the configured
\* criteria only, whatever score rows exist for other names.
C17_CriteriaReplaced ==
    [][ /\ (gcall'.op = "configure_criteria" /\ gcall'.raised = "") =>
              LET got == get_criteria(graph')
                  list == gcall'.criteria
              IN  /\ Len(got) = Len(list)
                  /\ \A i \in 1..Len(list) :
                        /\ got[i].name = list[i].name
                        /\ got[i].points = list[i].points
                  /\ Cardinality(graph'.criteria) = Len(list)
                  /\ get_threshold(graph') = gcall'.threshold
        /\ (gcall'.op = "compute_score" /\ gcall'.raised = "") =>
              LET names == { cr.name : cr \in graph.criteria }
              IN  /\ DOMAIN gcall'.ret.details = names
                  /\ gcall'.ret.total =
                        StoredPoints(graph, gcall'.target_id, names)
                  /\ gcall'.ret.max_possible =
                        sum_of([n \in names |->
                                  (CHOOSE cr \in graph.criteria : cr.name = n).points],
                               names) ]_vars

\* compute_score has left out the points of a score row whose criterion a
\* later configure_criteria removed
C17_Witness ==
    /\ gcall.op = "compute_score"
    /\ gcall.raised = ""
    /\ graph.criteria # {}
    /\ \E r \in graph.scores :
          /\ r.target_id = gcall.target_id
          /\ r.points_awarded > 0
          /\ r.criterion_name \notin DOMAIN gcall.ret.details
          /\ gcall.ret.total + r.points_awarded
                <= StoredPoints(graph, gcall.target_id, CriterionNames)

\* C18: a GraphScorer operation that raises leaves the store as it was
\* before the call; a configure_criteria that raises on a repeated name or
\* on an item without a name leaves get_criteria() and get_threshold() as
\* they were.
C18_FailedCallRollsBack ==
    [][ gcall'.raised # "" =>
          /\ graph' = graph
          /\ gcall'.op = "configure_criteria" =>
                /\ get_criteria(graph') = get_criteria(graph)
                /\ get_threshold(graph') = get_threshold(graph) ]_vars

\* configure_criteria has raised on an item without a name, after the
\* DELETE and one INSERT, on a store with two criteria and a threshold that
\* is neither the default nor the one of the failed call
C18_Witness ==
    /\ gcall.op = "configure_criteria"
    /\ gcall.raised = "KeyError"
    /\ Len(get_criteria(graph)) = 2
    /\ get_threshold(graph) # 60
    /\ get_threshold(graph) # gcall.threshold

----------------------------------------------------------------------------
(* Properties of the Entity-Graph Scorer: the task queue, checked under     *)
(* SpecTasks                                                                *)

\* The (type, entity_id, target_id) of a task row
TaskKey(t) == <<t.type, t.entity_id, t.target_id>>

\* C19: at most one pending or running task exists for a (type, entity_id,
\* target_id); an add_task that matches such a task returns its id and
\* inserts nothing; otherwise (every earlier task of the triple is done or
\* failed) it inserts a pending task and returns the new id.
C19_OneOpenTaskPerKey ==
    [][ /\ \A i, j \in 1..Len(graph'.tasks) :
              ( /\ TaskKey(graph'.tasks[i]) = TaskKey(graph'.tasks[j])
                /\ graph'.tasks[i].status \in {"pending", "running"}
                /\ graph'.tasks[j].status \in {"pending", "running"} )
              => i = j
        /\ gcall'.op = "add_task" =>
              LET open == { i \in 1..Len(graph.tasks) :
                              /\ TaskKey(graph.tasks[i]) = gcall'.key
                              /\ graph.tasks[i].status \in {"pending", "running"} }
              IN  /\ open # {} => /\ gcall'.ret \in open
                                  /\ graph'.tasks = graph.tasks
                  /\ open = {} =>
                        /\ gcall'.ret = Len(graph.tasks) + 1
                        /\ Len(graph'.tasks) = gcall'.ret
                        /\ TaskKey(graph'.tasks[gcall'.ret]) = gcall'.key
                        /\ graph'.tasks[gcall'.ret].status = "pending"
                        /\ \A i \in 1..Len(graph.tasks) :
                              /\ graph'.tasks[i] = graph.tasks[i]
                              /\ TaskKey(graph.tasks[i]) = gcall'.key
                                    => graph.tasks[i].status \in {"done", "failed"} ]_vars

\* add_task has returned the id of a running task instead of inserting,
\* while an earlier task of the same triple is done or failed
C19_Witness ==
    /\ gcall.op = "add_task"
    /\ gcall.ret < Len(graph.tasks)
    /\ graph.tasks[gcall.ret].status = "running"
    /\ TaskKey(graph.tasks[gcall.ret]) = gcall.key
    /\ \E i \in 1..(gcall.ret - 1) :
          /\ TaskKey(graph.tasks[i]) = gcall.key
          /\ graph.tasks[i].status \in {"done", "failed"}

\* C20: get_next_task returns none exactly when no task is pending;
\* otherwise it returns a pending task that no pending task precedes (a
\* smaller priority number, or the same priority and created earlier), sets
\* that task, and no other, to running in the same call, and the task was
\* never returned by an earlier get_next_task.
C20_NextTaskOrder ==
    [][ gcall'.op = "get_next_task" =>
          LET pending == { i \in 1..Len(graph.tasks) :
                             graph.tasks[i].status = "pending" }
              id == gcall'.ret
          IN  /\ (id = 0) <=> (pending = {})
              /\ id # 0 =>
                    /\ id \in pending
                    /\ \A j \in pending \ {id} :
                          \/ graph.tasks[id].priority < graph.tasks[j].priority
                          \/ /\ graph.tasks[id].priority = graph.tasks[j].priority
                             /\ graph.tasks[id].created_at < graph.tasks[j].created_at
                    /\ graph'.tasks = [graph.tasks EXCEPT ![id].status = "running"]
                    /\ id \notin handed
              /\ id = 0 => graph' = graph ]_vars

\* get_next_task has returned the older of two pending tasks of equal
\* priority, after an earlier call returned a task created later that has a
\* smaller priority number
C20_Witness ==
    /\ gcall.op = "get_next_task"
    /\ gcall.ret # 0
    /\ graph.tasks[gcall.ret].status = "running"
    /\ \E j \in 1..Len(graph.tasks) :
          /\ j > gcall.ret
          /\ graph.tasks[j].status = "pending"
          /\ graph.tasks[j].priority = graph.tasks[gcall.ret].priority
    /\ \E k \in handed :
          /\ k > gcall.ret
          /\ graph.tasks[k].priority < graph.tasks[gcall.ret].priority

----------------------------------------------------------------------------
(* Resolution Orchestrator: statuses of localities and regions *)

\* Every CityResolution the program holds: in the region being processed,
\* in the orchestrator's finished regions, and in the application state
Localities ==
    UNION { { task[t].sr.cities[c] : c \in DOMAIN task[t].sr.cities }
            \cup UNION { { task[t].states[n].cities[c] :
                              c \in DOMAIN task[t].states[n].cities } :
                          n \in DOMAIN task[t].states } : t \in TaskIds }
    \cup UNION { { app.resolution_status[n].cities[c] :
                      c \in DOMAIN app.resolution_status[n].cities } :
                  n \in DOMAIN app.resolution_status }

AllCategoriesResolved(cr) ==
    \A k \in DOMAIN cr.categories : cr.categories[k].status = RESOLVED

\* _process_city is between the return of a category-wave and the closing
\* assignment of the locality's status (no await lies in that stretch)
ClosingLocality(t) == task[t].pc \in {"cat_top", "wave_top", "city_done"}

\* C21 as stated: in every reachable state a locality's status is resolved
\* if and only if every category under it has status resolved. Violated
\* right after the last category of a locality is resolved, while the
\* locality is still in_progress.
C21_ResolvedIffInEveryState ==
    \A cr \in Localities : cr.status = RESOLVED <=> AllCategoriesResolved(cr)

\* C21 amended: whenever no scan task is in the synchronous stretch of
\* _process_city that closes a locality (so at every await, and after the
\* processing), a locality's status is resolved if and only if every
\* category under it has status resolved; and in every state a locality
\* whose status is resolved has every category resolved.
C21_ResolvedIff ==
    /\ (\A t \in TaskIds : ~ClosingLocality(t)) => C21_ResolvedIffInEveryState
    /\ \A cr \in Localities : cr.status = RESOLVED => AllCategoriesResolved(cr)

\* Every scan task is suspended or ended and the application state holds a
\* region with a resolved locality
C21_Witness ==
    /\ AllSuspended
    /\ \E n \in DOMAIN app.resolution_status :
           \E c \in DOMAIN app.resolution_status[n].cities :
               LET cr == app.resolution_status[n].cities[c]
               IN  cr.status = RESOLVED /\ AllCategoriesResolved(cr)

----------------------------------------------------------------------------
(* Resolution Orchestrator: cancellation *)

\* The scan of slot t was told to stop: h_stop_scan cleared the running
\* flag that the scan set when it began
Stopped(t) == task[t].pc \notin {"idle", "created"} /\ ~task[t].running

\* C22: a checkpoint wait of a scan whose cancellation was requested before
\* any user decision arrived ends at its next poll with "skip", so no such
\* wait blocks forever: whenever a stopped scan waits in checkpoint() with
\* the event not set, its poll finds the scan_running flag cleared.
\* Violated when a start request is accepted before the poll: the new scan
\* sets scan_running again and the stopped scan keeps waiting.
C22_CancelledWaitEnds ==
    \A t \in TaskIds :
        (Stopped(t) /\ task[t].pc = "checkpoint" /\ app.checkpoint_event # "set")
            => ~app.scan_running

\* The scan of slot t passes a loop head and starts a region (process_state
\* is called), a locality, a wave or a category-wave
StartsWork(t) ==
    \/ task[t].pc = "region_top" /\ task'[t].pc = "city_top"
    \/ task[t].pc = "city_top" /\ task'[t].pc = "wave_top"
    \/ task[t].pc = "wave_top" /\ task'[t].pc = "cat_top"
    \/ task[t].pc = "cat_top" /\ task'[t].pc = "generate_queries"

\* C23: after a stop is requested, no new region, locality, wave or
\* category-wave is started: while the scan_running flag is cleared by a stop
\* request, no scan task passes a loop head. Violated when two scans are
\* alive: h_stop_scan stops only the orchestrator registered last.
C23_NoNewWorkAfterStop ==
    [][ ((\E u \in TaskIds : Stopped(u)) /\ ~app.scan_running)
            => \A t \in TaskIds : ~StartsWork(t) ]_vars

\* With one scan task: a stopped scan passes no loop head
C23_StoppedScanStartsNothing ==
    [][ \A t \in TaskIds : Stopped(t) => ~StartsWork(t) ]_vars

----------------------------------------------------------------------------
(* Strategy Planner: flatten_queries and count_queries. A text is the       *)
(* sequence of its pieces; a placeholder is one piece.                      *)

RECURSIVE replace(_, _, _)
\* str.replace(old, new) for a placeholder old
replace(text, old, new) ==
    IF text = <<>> THEN <<>>
    ELSE (IF Head(text) = old THEN new ELSE <<Head(text)>>)
             \o replace(Tail(text), old, new)

\* The query with {city}, {state} and {country} filled in
filled(q, city, state) ==
    replace(replace(replace(q, "{city}", city), "{state}", state),
            "{country}", <<"USA">>)

\* A step tree is held as the sequence of its steps in the order of their
\* ids, each with the positions of its sub-steps: steps[i].sub_steps
RECURSIVE flatten_steps(_, _, _, _, _, _, _)
\* _flatten_steps over the steps at positions ids of the table steps
flatten_steps(steps, ids, strat_name, tier, city, state, result) ==
    IF ids = <<>> THEN result
    ELSE LET step == steps[Head(ids)]
             own == [i \in 1..Len(step.queries) |->
                        [query |-> filled(step.queries[i], city, state),
                         strategy |-> strat_name, tier |-> tier,
                         step_id |-> step.id, priority |-> step.priority]]
             below == flatten_steps(steps, step.sub_steps, strat_name, tier,
                                    city, state, result \o own)
         IN  flatten_steps(steps, Tail(ids), strat_name, tier, city, state, below)

RECURSIVE insert_descending(_, _)
\* x put behind every element of the sorted list that is not smaller
insert_descending(sorted, x) ==
    IF sorted = <<>> THEN <<x>>
    ELSE IF Head(sorted).priority >= x.priority
    THEN <<Head(sorted)>> \o insert_descending(Tail(sorted), x)
    ELSE <<x>> \o sorted

RECURSIVE insert_ascending(_, _)
insert_ascending(sorted, x) ==
    IF sorted = <<>> THEN <<x>>
    ELSE IF Head(sorted).priority <= x.priority
    THEN <<Head(sorted)>> \o insert_ascending(Tail(sorted), x)
    ELSE <<x>> \o sorted

RECURSIVE sort_ascending(_)
\* The list sorted by priority, lowest first
sort_ascending(result) ==
    IF result = <<>> THEN <<>>
    ELSE insert_ascending(sort_ascending(SubSeq(result, 1, Len(result) - 1)),
                          result[Len(result)])

RECURSIVE sort_by_priority(_)
\* result.sort(key=priority, reverse=True): highest first, equal keys in
\* their original order
sort_by_priority(result) ==
    IF result = <<>> THEN <<>>
    ELSE insert_descending(sort_by_priority(SubSeq(result, 1, Len(result) - 1)),
                           result[Len(result)])

RECURSIVE flatten_strategies(_, _, _, _)
flatten_strategies(strategies, city, state, result) ==
    IF strategies = <<>> THEN result
    ELSE flatten_strategies(Tail(strategies), city, state,
             flatten_steps(Head(strategies).table, Head(strategies).steps,
                           Head(strategies).name, Head(strategies).tier,
                           city, state, result))

\* StrategyPlanner.flatten_queries; no strategies given means the last plan
flatten_queries(last_strategies, strategies, city, state) ==
    sort_by_priority(
        flatten_strategies(IF strategies = <<>> THEN last_strategies
                           ELSE strategies, city, state, <<>>))

RECURSIVE count_step_queries(_, _)
\* _count_step_queries
count_step_queries(steps, ids) ==
    IF ids = <<>> THEN 0
    ELSE Len(steps[Head(ids)].queries)
         + count_step_queries(steps, steps[Head(ids)].sub_steps)
         + count_step_queries(steps, Tail(ids))

RECURSIVE count_total(_)
\* count_queries(...)["total"]
count_total(strategies) ==
    IF strategies = <<>> THEN 0
    ELSE count_step_queries(Head(strategies).table, Head(strategies).steps)
         + count_total(Tail(strategies))

count_queries(last_strategies, strategies) ==
    count_total(IF strategies = <<>> THEN last_strategies ELSE strategies)

\* Step priorities the plans may carry
StepPriorities == {10, 50, 90}

\* A plan of two strategies: five steps down to the third nesting depth,
\* one of them without queries, with the priorities pr
Plan(pr) ==
    << [name |-> "A", tier |-> "direct", steps |-> <<1, 4>>,
        table |->
          << [id |-> "S1", priority |-> pr[1], sub_steps |-> <<2>>,
              queries |-> << <<"film", "{city}">> >>],
             [id |-> "S1.1", priority |-> pr[2], sub_steps |-> <<3>>,
              queries |-> << <<"{city}", "{state}", "vlog">>, <<"news">> >>],
             [id |-> "S1.1.1", priority |-> pr[3], sub_steps |-> <<>>,
              queries |-> << <<"{state}", "{country}", "{city}", "{city}">> >>],
             [id |-> "S2", priority |-> pr[4], sub_steps |-> <<>>,
              queries |-> <<>>] >>],
       [name |-> "B", tier |-> "indirect", steps |-> <<1>>,
        table |->
          << [id |-> "S1", priority |-> pr[5], sub_steps |-> <<>>,
              queries |-> << <<"{country}", "press">> >>] >>] >>

Plans == { Plan(pr) : pr \in [1..5 -> StepPriorities] }

CityArgs == { <<>>, <<"Austin">> }

StateArgs == { <<>>, <<"Texas">> }

----------------------------------------------------------------------------
(* ChannelCandidate: the scores, in thousandths *)

\* round(n / d) to the nearest integer, a tie to the even one
round_div(n, d) ==
    LET q == n \div d
        r == n % d
    IN  IF 2 * r < d THEN q
        ELSE IF 2 * r > d THEN q + 1
        ELSE IF q % 2 = 0 THEN q ELSE q + 1

\* compute_city_score; city_evidence is held as the source_url of each entry
compute_city_score(c) ==
    LET srcs == { c.city_evidence[i] : i \in 1..Len(c.city_evidence) } \ {""}
        n == Cardinality(srcs)
    IN  [c EXCEPT !.city_score =
            IF c.city_evidence = <<>> THEN 0
            ELSE IF srcs = {} THEN 150
            ELSE MinOf({950, 300 + 200 * n})]

\* The weighted sum of compute_total_score, rounded to three decimals
weighted_total(c) ==
    round_div(3 * (300 * c.city_score + 150 * c.category_score
                   + 250000 * (IF c.yt_subscriber_match THEN 1 ELSE 0)
                   + 200000 * (IF c.yt_last_upload_recent THEN 1 ELSE 0))
              + 100000 * MinOf({3, c.independent_sources}),
              3000)

\* The same with no look at yt_exists
compute_total_score_unchecked(c) ==
    LET c1 == compute_city_score(c)
    IN  [c1 EXCEPT !.total_score = weighted_total(c1)]

\* ChannelCandidate.compute_total_score
compute_total_score(c) ==
    LET c1 == compute_city_score(c)
    IN  IF ~c1.yt_exists THEN [c1 EXCEPT !.total_score = 0]
        ELSE [c1 EXCEPT !.total_score = weighted_total(c1)]

CityEvidenceLists ==
    { <<>>, <<"">>, <<"a">>, <<"a", "b", "a">>, <<"a", "b", "c", "d">> }

Candidates ==
    [city_evidence : CityEvidenceLists, city_score : {0},
     category_score : {0, 500, 1000}, yt_exists : BOOLEAN,
     yt_subscriber_match : BOOLEAN, yt_last_upload_recent : BOOLEAN,
     independent_sources : {0, 2, 5}, total_score : {0, 555}]

----------------------------------------------------------------------------
(* SpecFunctions: flatten_queries or compute_total_score called once, on    *)
(* any of the plans and candidates (both are functions of their arguments)  *)

InitFunctions ==
    /\ lastCall = NoCall
    /\ cost = NewEngine(LongConfig)
    /\ roiExhausted = {}
    /\ calls = 0
    /\ app = AppState
    /\ task = [t \in TaskIds |-> NoTask]
    /\ disk = EmptyDisk
    /\ config = SmallConfig
    /\ graph = EmptyDb
    /\ gcall = NoGCall
    /\ handed = {}
    /\ now = 0

FlattenQueries ==
    \E last \in Plans, given \in BOOLEAN, city \in CityArgs, state \in StateArgs :
        LET strategies == IF given THEN last ELSE <<>>
        IN  /\ lastCall = NoCall
            /\ lastCall' =
                   [op |-> "flatten_queries", last_strategies |-> last,
                    strategies |-> strategies, city |-> city, state |-> state,
                    ret |-> flatten_queries(last, strategies, city, state),
                    count |-> count_queries(last, strategies)]
            /\ UNCHANGED <<cost, roiExhausted, calls, pipeVars, graphVars>>

ComputeTotalScore ==
    \E c \in Candidates :
        /\ lastCall = NoCall
        /\ lastCall' = [op |-> "compute_total_score", self |-> c,
                        ret |-> compute_total_score(c)]
        /\ UNCHANGED <<cost, roiExhausted, calls, pipeVars, graphVars>>

NextFunctions == FlattenQueries \/ ComputeTotalScore

SpecFunctions == InitFunctions /\ [][NextFunctions]_vars

----------------------------------------------------------------------------
(* Strategy Planner and ChannelCandidate: properties *)

RECURSIVE Substituted(_, _, _)
\* The text with every placeholder piece exchanged for its value at once
Substituted(q, city, state) ==
    IF q = <<>> THEN <<>>
    ELSE (IF Head(q) = "{city}" THEN city
          ELSE IF Head(q) = "{state}" THEN state
          ELSE IF Head(q) = "{country}" THEN <<"USA">>
          ELSE <<Head(q)>>) \o Substituted(Tail(q), city, state)

RECURSIVE Concat(_)
Concat(lists) == IF lists = <<>> THEN <<>> ELSE Head(lists) \o Concat(Tail(lists))

\* One descriptor per query of every step of every strategy, in the order
\* of a depth-first walk: the steps of a table stand in that order
Traversal(strategies, city, state) ==
    Concat([k \in 1..Len(strategies) |->
        Concat([i \in 1..Len(strategies[k].table) |->
            [j \in 1..Len(strategies[k].table[i].queries) |->
                [query |-> Substituted(strategies[k].table[i].queries[j],
                                       city, state),
                 strategy |-> strategies[k].name, tier |-> strategies[k].tier,
                 step_id |-> strategies[k].table[i].id,
                 priority |-> strategies[k].table[i].priority]]])])

RECURSIVE ByDescendingPriority(_, _)
\* The descriptors of list with a priority of ps, the highest priority
\* first and those of one priority in the order of list
ByDescendingPriority(list, ps) ==
    IF ps = {} THEN <<>>
    ELSE LET top == CHOOSE p \in ps : \A r \in ps : r <= p
         IN  SelectSeq(list, LAMBDA d : d.priority = top)
                 \o ByDescendingPriority(list, ps \ {top})

Placeholders == {"{city}", "{state}", "{country}"}

\* C24: flatten_queries returns one descriptor per query of every step at
\* every nesting depth of every strategy, as many as count_queries reports in
\* total, each with the placeholders substituted, ordered by descending step
\* priority with equal priorities in depth-first traversal order.
C24_FlattenQueries ==
    lastCall.op = "flatten_queries" =>
        /\ lastCall.ret =
               ByDescendingPriority(
                   Traversal(lastCall.last_strategies, lastCall.city,
                             lastCall.state),
                   StepPriorities)
        /\ Len(lastCall.ret) = lastCall.count
        /\ \A n \in 1..Len(lastCall.ret) :
               \A i \in 1..Len(lastCall.ret[n].query) :
                   lastCall.ret[n].query[i] \notin Placeholders

\* Steps of priorities 10, 90, 50 and a step of another strategy that ties
\* with the third: the result has the priorities 90, 90, 50, 50, 10, the two
\* of 50 in traversal order, and the city filled in
C24_Witness ==
    /\ lastCall.op = "flatten_queries"
    /\ lastCall.city = <<"Austin">>
    /\ lastCall.count = 5
    /\ [n \in 1..5 |-> lastCall.ret[n].priority] = <<90, 90, 50, 50, 10>>
    /\ lastCall.ret[3].step_id = "S1.1.1"
    /\ lastCall.ret[4].strategy = "B"
    /\ lastCall.ret[5].query = <<"film", "Austin">>

\* C25: compute_total_score sets total_score to 0 for every candidate whose
\* yt_exists flag is false, whatever its city evidence, category score,
\* subscriber match, recency flag and independent-source count.
C25_NoChannelScoresZero ==
    (lastCall.op = "compute_total_score" /\ ~lastCall.self.yt_exists)
        => lastCall.ret.total_score = 0

\* A candidate with every other signal at its best and an earlier score,
\* but no channel: the score is set to 0
C25_Witness ==
    /\ lastCall.op = "compute_total_score"
    /\ ~lastCall.self.yt_exists
    /\ lastCall.self.total_score = 555
    /\ lastCall.self.yt_subscriber_match
    /\ lastCall.self.yt_last_upload_recent
    /\ lastCall.self.independent_sources = 5
    /\ lastCall.self.category_score = 1000
    /\ lastCall.ret.city_score = 950
    /\ lastCall.ret.total_score = 0

----------------------------------------------------------------------------
(* Resolution Orchestrator: the phases of a category-wave *)

\* C26: every Cost Engine report made for a category-wave, hit or miss and
\* including the miss reported when the searches return nothing, is tagged
\* with the source tier of its wave. Violated by the miss of an empty search
\* in waves 2 and 3, which is reported on "direct".
C26_ReportsTaggedWithTier ==
    [][ \A t \in TaskIds :
            Len(task'[t].trace.reports) > Len(task[t].trace.reports)
                => task'[t].trace.reports[Len(task'[t].trace.reports)].source
                       = source_tier(task[t].wave) ]_vars

\* The phases of a category-wave up to the assembly of the candidates
EarlyPhases == {"generate_queries", "search", "triage", "fetch", "assemble"}

\* Reasons of a failure that a skipped checkpoint gives
SkipReasons ==
    {"Skipped by user", "Skipped after search", "Skipped before verification"}

C28_NoneVerifiedEscalates ==
    [][ \A t \in TaskIds :
            (/\ task[t].pc = "verify"
             /\ task'[t].pc \in {"cat_top", "analyze_failure"}
             /\ cat_res(task'[t]).status # RESOLVED)
                => IF task[t].wave < MAX_WAVES
                   THEN /\ task'[t].pc = "analyze_failure"
                        /\ cat_res(task'[t]).status = IN_PROGRESS
                   ELSE cat_res(task'[t]).status = FAILED ]_vars

\* The statuses of the categories under a locality and under a region
CategoryStatuses(cr) == { cr.categories[k].status : k \in DOMAIN cr.categories }

RegionCategoryStatuses(sr) ==
    UNION { CategoryStatuses(sr.cities[c]) : c \in DOMAIN sr.cities }

\* At least one but not all of the categories are resolved
SomeButNotAllResolved(statuses) ==
    RESOLVED \in statuses /\ statuses # {RESOLVED}

\* The regions whose processing has finished
FinishedRegions ==
    UNION { { task[t].states[n] : n \in DOMAIN task[t].states } : t \in TaskIds }
    \cup { app.resolution_status[n] : n \in DOMAIN app.resolution_status }

\* C29: when the processing of a locality or region finishes, its status is
\* partial exactly when at least one but not all of the categories under it
\* are resolved. Violated by a locality with no resolved category, which is
\* partial, and by a region of which some categories are resolved and the
\* others failed, which is resolved.
C29_PartialExactly ==
    /\ \A cr \in Localities :
           cr.status \in {RESOLVED, PARTIAL}
               => (cr.status = PARTIAL
                      <=> SomeButNotAllResolved(CategoryStatuses(cr)))
    /\ \A sr \in FinishedRegions :
           sr.status = PARTIAL
               <=> SomeButNotAllResolved(RegionCategoryStatuses(sr))

----------------------------------------------------------------------------
(* Resolution Orchestrator: the candidates of a wave in the graph store.    *)
(* SpecFeed follows the store through the waves: the feed after the         *)
(* assembly, checkpoint 3, and the verification.                            *)

\* Candidates as assemble_candidates returns them: channel_name may be
\* missing, channel_url may be missing or empty
NoName == "(no channel_name)"

AssembledCandidates ==
    [channel_name : {"a", NoName}, channel_url : {"", "u1"}]

CandidateLists ==
    { <<c>> : c \in AssembledCandidates }
    \cup { <<c, d>> : c \in AssembledCandidates, d \in AssembledCandidates }

\* The verified ChannelCandidates of a wave, at most one
VerifiedLists ==
    { <<>> } \cup { <<c>> : c \in [channel_name : {"a", "b"},
                                  channel_url : TargetUrls] }

RECURSIVE feed_entities_only(_, _, _)
\* The feed without the targets
feed_entities_only(db, candidates, city) ==
    IF candidates = <<>> THEN [db |-> db, raised |-> ""]
    ELSE LET cand == Head(candidates)
             e == add_entity(db, IF cand.channel_name = NoName THEN "?"
                                 ELSE cand.channel_name,
                             "person", city, "target_found")
         IN  IF e.raised # "" THEN [db |-> e.db, raised |-> e.raised]
             ELSE feed_entities_only(e.db, Tail(candidates), city)

RECURSIVE feed_graph(_, _, _)
\* "Feed into GraphScorer": an entity for every candidate and a target for
\* every candidate with a channel_url; an exception ends the loop
feed_graph(db, candidates, city) ==
    IF candidates = <<>> THEN [db |-> db, raised |-> ""]
    ELSE LET cand == Head(candidates)
             e == add_entity(db, IF cand.channel_name = NoName THEN "?"
                                 ELSE cand.channel_name,
                             "person", city, "target_found")
             t == IF e.raised # "" \/ cand.channel_url = "" THEN e
                  ELSE add_target(e.db, cand.channel_url, e.ret, "youtube")
         IN  IF t.raised # "" THEN [db |-> t.db, raised |-> t.raised]
             ELSE feed_graph(t.db, Tail(candidates), city)

RECURSIVE feed_verified(_, _, _)
\* _verify_youtube: every verified channel is fed as a validated entity
\* with its target
feed_verified(db, verified, city) ==
    IF verified = <<>> THEN [db |-> db, raised |-> ""]
    ELSE LET ch == Head(verified)
             e == add_entity(db, ch.channel_name, "person", city, "validated")
             t == IF e.raised # "" THEN e
                  ELSE add_target(e.db, ch.channel_url, e.ret, "youtube")
         IN  IF t.raised # "" THEN [db |-> t.db, raised |-> t.raised]
             ELSE feed_verified(t.db, Tail(verified), city)

WithinStore(db) ==
    Len(db.entities) <= MaxEntities /\ Len(db.targets) <= MaxTargets

InitFeed ==
    /\ IdleOutsideGraph
    /\ graph = EmptyDb
    /\ gcall = NoGCall
    /\ handed = {}
    /\ now = 0

\* Phase 5 of a wave returned candidates: the feed, then checkpoint 3 opens
FeedGraph ==
    \E candidates \in CandidateLists, city \in {"x", "y"} :
        LET r == feed_graph(graph, candidates, city)
        IN  /\ gcall.op \in {"none", "wave_ended"}
            /\ WithinStore(r.db)
            /\ graph' = r.db
            /\ gcall' = [op |-> IF r.raised = "" THEN "candidates_found"
                                ELSE "wave_ended",
                         candidates |-> candidates, city |-> city,
                         outcome |-> IF r.raised = "" THEN "" ELSE "raised",
                         ret |-> "", raised |-> r.raised]
            /\ UNCHANGED <<costVars, pipeVars, handed, now>>

\* Checkpoint 3 returns: "skip" ends the wave, anything else goes on
CandidatesCheckpoint ==
    \E cp3 \in {"continue", "skip"} :
        /\ gcall.op = "candidates_found"
        /\ gcall' = IF cp3 = "skip"
                    THEN [gcall EXCEPT !.op = "wave_ended", !.outcome = "skipped"]
                    ELSE [gcall EXCEPT !.op = "verify"]
        /\ UNCHANGED <<costVars, pipeVars, graph, handed, now>>

\* Phases 6 and 7 return the verified channels and the wave ends
VerifyCandidates ==
    \E verified \in VerifiedLists :
        LET r == feed_verified(graph, verified, gcall.city)
        IN  /\ gcall.op = "verify"
            /\ WithinStore(r.db)
            /\ graph' = r.db
            /\ gcall' = [gcall EXCEPT
                   !.op = "wave_ended",
                   !.outcome = IF r.raised # "" THEN "raised"
                               ELSE IF verified = <<>> THEN "rejected"
                               ELSE "verified",
                   !.raised = r.raised]
            /\ UNCHANGED <<costVars, pipeVars, handed, now>>

NextFeed ==
    \/ FeedGraph
    \/ CandidatesCheckpoint
    \/ VerifyCandidates

SpecFeed == InitFeed /\ [][NextFeed]_vars

\* The candidate has its entity, and its target when it carries a URL
Registered_in_graph(cand, city) ==
    /\ \E i \in 1..Len(graph.entities) :
           /\ graph.entities[i].city = city
           /\ graph.entities[i].name =
                  (IF cand.channel_name = NoName THEN "?" ELSE cand.channel_name)
    /\ cand.channel_url # ""
           => \E j \in 1..Len(graph.targets) :
                  /\ graph.targets[j].url = cand.channel_url
                  /\ references(graph.entities, graph.targets[j].entity_id)

----------------------------------------------------------------------------
(* Cost Engine: hit rate *)

\* C40: in every reachable Cost Engine state each source satisfies
\* hits <= attempts, so its hit rate never exceeds 1, for any sequence of
\* report_result calls including calls with found > 1. Violated by the
\* first report with found > 1: hits grows by found, attempts by 1.
C40_HitsAtMostAttempts ==
    \A n \in Registered(cost) : cost.sources[n].hits <= cost.sources[n].attempts


(* Graph scorer: bounds of the aggregate *)
\* C39: for every target, the aggregate produced by compute_score has
\* 0 <= total <= max_possible, after any sequence of configure_criteria,
\* set_criterion and compute_score calls, including reconfiguring a
\* criterion with fewer points after it was scored. Violated: the total sums
\* the points_awarded frozen by set_criterion, max_possible the current
\* points of the criteria.
C39_TotalWithinMax ==
    \A r \in graph.score_totals : 0 <= r.total /\ r.total <= r.max_possible


(* Resuming a scan *)
\* C32: after a restart that resumes from the resume marker, the
\* orchestrator's Cost Engine continues from the persisted state: when
\* run_full_scan has loaded a marker that lists regions, the engine state
\* dump is on disk and the engine the new orchestrator holds has the
\* total_actions written there. Violated: the dump is never written and
\* PipelineOrchestrator.__init__ builds a new engine without reading it.
C32_EngineContinues ==
    [][\A t \in TaskIds :
          ( /\ task[t].pc = "created"
            /\ task'[t].pc = "region_top"
            /\ task'[t].resume_state.loaded
            /\ task'[t].resume_state.states # {} ) =>
              /\ disk.cost_state.exists
              /\ task'[t].cost.total_actions = disk.cost_state.total_actions]_vars


\* C33: the set of completed regions in the resume marker only grows across
\* saves and across restarts: a region the marker lists is still listed
\* after every later step. Violated: run_full_scan empties
\* resolution_status and _save writes the marker from its keys, so the
\* first save of a later run drops the regions of the earlier runs.
C33_MarkerOnlyGrows ==
    [][disk.resume.states \subseteq disk'.resume.states]_vars

\* C34: every region listed in the resume marker was fully processed: when
\* a save adds it to the marker, every category of every one of its
\* localities is resolved or failed. Violated: after a stop request
\* process_state leaves its loop early and returns the region with
\* localities still pending, and run_full_scan records and saves it.
C34_ListedRegionsProcessed ==
    [][\A n \in disk'.resume.states \ disk.resume.states :
          /\ n \in DOMAIN app.resolution_status
          /\ \A c \in DOMAIN app.resolution_status[n].cities :
                CategoryStatuses(app.resolution_status[n].cities[c])
                    \subseteq {RESOLVED, FAILED}]_vars

(* Start, stop and end of a scan *)
\* C35: whenever run_full_scan ends, by completing all regions, by
\* cancellation, by a Cost Engine stop or by an exception, the scan_running
\* flag is false afterwards: the step in which a scan task ends leaves the
\* flag false. Violated: the exception of pipe.cost.save() after a region
\* leaves the loop with no handler, and the flag stays true.
C35_EndedScanClearsFlag ==
    [][\A t \in TaskIds :
          ( /\ task[t].pc \notin {"done", "crashed"}
            /\ task'[t].pc \in {"done", "crashed"} ) =>
              ~app'.scan_running]_vars

\* C36: at most one scan task executes orchestration logic at any time:
\* whenever a start request is accepted, no previously started scan is still
\* running. Violated: a stop request clears scan_running at once while the
\* stopped task is still suspended in an await, so the next start request
\* is accepted beside it; and a task created by an accepted start sets
\* scan_running only when it first runs, so a second start before that is
\* accepted too.
C36_OneScanAtATime ==
    [][\A t \in TaskIds :
          (task[t].pc = "idle" /\ task'[t].pc = "created") =>
              \A u \in TaskIds \ {t} : task[u].pc \in EndedPcs]_vars

(* Checkpoints *)
\* C38: checkpoint_waiting is true, and the persisted checkpoint snapshot
\* present, only while the orchestrator is suspended inside checkpoint():
\* after checkpoint() has returned by any path, including cancellation, the
\* flag is false and the snapshot has been removed. Violated: the
\* `return "skip"` of a cancelled wait leaves the flag set and the file on
\* disk.
C38_ReturnedCheckpointClosed ==
    [][\A t \in TaskIds :
          ( /\ task[t].pc = "checkpoint"
            /\ task'[t].pc \notin {"checkpoint", "idle"} ) =>
              /\ ~app'.checkpoint_waiting
              /\ ~disk'.checkpoint.exists]_vars

\* SpecCheckpoints: one scan of one category in validation mode, with the
\* checkpoint endpoint answering, or being posted to, at any suspension point
InitCheckpoints ==
    /\ app = AppState
    /\ task = [t \in TaskIds |-> NoTask]
    /\ disk = EmptyDisk
    /\ config = OneCategoryConfig
    /\ cost = NewEngine(LongConfig)
    /\ lastCall = NoCall
    /\ roiExhausted = {}
    /\ calls = 0
    /\ graph = EmptyDb
    /\ gcall = NoGCall
    /\ handed = {}
    /\ now = 0

NextCheckpoints ==
    \/ StartModel
    \/ h_start_scan(1)
    \/ h_stop_scan
    \/ h_checkpoint_respond
    \/ TaskStep(1)

SpecCheckpoints == InitCheckpoints /\ [][NextCheckpoints]_vars

\* The scan of slot t is alive and not inside checkpoint()
BetweenCheckpoints(t) ==
    task[t].pc \in (AwaitPcs \ {"created", "checkpoint"})

\* C37: a decision posted to the checkpoint endpoint while no checkpoint is
\* open is never taken as the answer to a checkpoint opened afterwards. A
\* checkpoint() call that begins to wait starts with the event clear, no
\* response and no modifications, whatever was posted before; and it returns
\* only once the event has been set since, with the response posted, or
\* with "skip" once the scan was cancelled.
C37_StaleDecisionNotTaken ==
    [][\A t \in TaskIds :
          /\ (task[t].pc # "checkpoint" /\ task'[t].pc = "checkpoint") =>
                 /\ app'.checkpoint_event = "clear"
                 /\ app'.checkpoint_response = ""
                 /\ app'.checkpoint_modifications = <<>>
          /\ (task[t].pc = "checkpoint" /\ task'[t].pc # "checkpoint") =>
                 \/ app.checkpoint_event = "set"
                 \/ /\ ~app.scan_running
                    /\ task'[t] = after_checkpoint(World(t), task[t].cp, "skip").tr
                 \/ task'[t].pc = "idle"]_vars

\* "skip" was posted while the running scan, in validation mode, is between
\* the second and the third checkpoint (a "skip" answer to the second would
\* have failed the category): it is pending when the third checkpoint opens
C37_Witness ==
    /\ BetweenCheckpoints(1)
    /\ task[1].pc = "assemble"
    /\ task[1].running /\ app.scan_running /\ ~app.auto_mode
    /\ app.checkpoint_event = "set"
    /\ app.checkpoint_response = "skip"

(* Resolution Orchestrator: the best candidate of a resolved category *)

\* SpecResolve: the scan of one category where verification can score up to
\* two channels
InitResolve ==
    /\ app = AppState
    /\ task = [t \in TaskIds |-> NoTask]
    /\ disk = EmptyDisk
    /\ config = ScoredConfig
    /\ cost = NewEngine(LongConfig)
    /\ lastCall = NoCall
    /\ roiExhausted = {}
    /\ calls = 0
    /\ graph = EmptyDb
    /\ gcall = NoGCall
    /\ handed = {}
    /\ now = 0

SpecResolve == InitResolve /\ [][NextPipe]_vars

\* The category records of a region record
CategoriesOf(sr) ==
    { sr.cities[c].categories[k] :
        c \in DOMAIN sr.cities, k \in SeqRange(CATEGORIES) }

\* Every category record there is: of the regions in hand, of the regions the
\* orchestrators keep and of those run_full_scan recorded
CategoryRecords ==
    UNION ( { CategoriesOf(task[t].sr) : t \in TaskIds }
            \cup UNION { { CategoriesOf(task[t].states[n]) :
                              n \in DOMAIN task[t].states } : t \in TaskIds }
            \cup { CategoriesOf(app.resolution_status[n]) :
                      n \in DOMAIN app.resolution_status } )

\* C31: a category is resolved if and only if it has a best candidate, and
\* that best candidate is a verified candidate whose total score is maximal
\* among the candidates verified in the resolving wave.
C31_ResolvedHasBest ==
    \A cat \in CategoryRecords :
        /\ cat.status = RESOLVED <=> cat.best_candidate # NoCandidate
        /\ cat.status = RESOLVED =>
              /\ cat.best_candidate \in SeqRange(cat.candidates)
              /\ cat.best_candidate.verified
              /\ cat.best_candidate.total_score >= MIN_TOTAL_SCORE
              /\ \A c \in SeqRange(cat.candidates) :
                    /\ c.verified
                    /\ c.total_score <= cat.best_candidate.total_score

\* A recorded category resolved in a wave that verified two candidates, the
\* second with the higher score
C31_Witness ==
    \E n \in DOMAIN app.resolution_status :
        \E cat \in CategoriesOf(app.resolution_status[n]) :
            /\ cat.status = RESOLVED
            /\ Len(cat.candidates) = 2
            /\ cat.candidates[1].total_score < cat.candidates[2].total_score
            /\ cat.best_candidate = cat.candidates[2]

====
